---- MODULE Spec2Model ----
(***************************************************************************)
(* Model of the dogfights UDP transport (network/lib.rs), its wire codec   *)
(* (bincode reader/writer) and the server loop that sits on top of it.     *)
(*                                                                         *)
(* Datagrams and receive buffers are sequences of bytes.  A buffer is      *)
(* MAX_PACKET_SIZE bytes long; only the prefix that has ever been written  *)
(* is stored, every byte after it is 0, as in `[0; MAX_PACKET_SIZE]`.      *)
(***************************************************************************)
EXTENDS Integers, Sequences, FiniteSets, TLC

\* ------------------------------------------------------------------------
\* Program constants (conf/lib.rs)

CONN_TIMEOUT == 10000
\* 0xD05F1575 as it is on the wire (big-endian); TLC's integers
\* have 32 bits with a sign, so the magic is kept as its four bytes
PROTO_ID == << 208, 95, 21, 117 >>
MAX_PACKET_SIZE == 1400
\* send_ping / send_pong encode into `[0; 200]`
PING_BUF_SIZE == 200
\* server/lib.rs: the length of the ring of Games
SERVER_GAMES == 32
\* ShipSpec.firing_interval (1 s, dogfights/init.rs) in steps of TIME_STEP
\* (0.05 s, conf/lib.rs)
FIRING_INTERVAL_TICKS == 20

\* ------------------------------------------------------------------------
\* Bounds of the model

\* packets sent in a run: the calls of encode_and_send that get past the
\* timeout test, plus the datagrams of the third party
MaxPackets == 3
\* iterations of the loop of Server::run (server/lib.rs)
MaxTicks == 3
\* iterations of the loop of Server::run when the ring is filled
MaxRingTicks == 34
\* calls of JoinHandle::join
MaxJoins == 2
\* calls of send_input on the in-process send handles
MaxInputs == 3
\* rounds of Client::ping_worker
MaxPings == 3
\* the clock stops at MaxNow
MaxNow == 10001
\* the seq and ack of the headers tickle is called with go up to MaxHeaderSeq
MaxHeaderSeq == 3

MaxGameTicks == 3

MaxShips == 2

MaxCount == 4

MaxActors == 3

MaxBatch == 2

\* the ids and the counter of the registries that are encoded
MaxActorId == 7

MaxCounter == 8

\* the ships of the largest game the server sends
MaxSentShips == 27

\* how far off the map a camera starts, and how fast a ship goes, in pixels
MaxCam == 9000

MaxVel == 100

\* calls of encode_and_send by the threads that share the Conn of a client
MaxRaceSends == 3

\* players that one broadcast finds dead
MaxDead == 2

\* iterations of the loop of Server::run whose locks are followed
MaxLockTicks == 2

\* inputs sent while players come and go
MaxStaleInputs == 2

\* iterations of run while players come and go
MaxStaleTicks == 2

\* games that wait for recv_game at most
MaxInbox == 2

\* rounds of the loop of recv_game that are told apart
MaxPolls == 2

\* calls of send_input by the input thread of attach_sdl
MaxQuitInputs == 2

\* ------------------------------------------------------------------------
\* bincode writer: big-endian fixed width primitives, one byte tags

\* EncoderWriter::emit_u32, for v < 2^31
emit_u32(v) ==
    << (v \div 16777216) % 256, (v \div 65536) % 256, (v \div 256) % 256, v % 256 >>

\* EncoderWriter::emit_bool
emit_bool(v) == << IF v THEN 1 ELSE 0 >>

\* enum MsgType { Ping, Pong, Normal }: the variant index is the tag
MsgTypeTag(t) == CASE t = "Ping" -> 0 [] t = "Pong" -> 1 [] t = "Normal" -> 2

\* enum Rotating { Still, Left, Right }
RotatingTag(r) == CASE r = "Still" -> 0 [] r = "Left" -> 1 [] r = "Right" -> 2

\* Header::new and its derived Encodable: proto_id, local.seq, local.ack, msg_type
EncodeHeader(local, msg_type) ==
    PROTO_ID \o emit_u32(local.seq) \o emit_u32(local.ack)
        \o << MsgTypeTag(msg_type) >>

\* derived Encodable of Input: quit, accel, firing, rotating, paused
EncodeInput(i) ==
    emit_bool(i.quit) \o emit_bool(i.accel) \o emit_bool(i.firing)
        \o << RotatingTag(i.rotating) >> \o emit_bool(i.paused)

\* n zero bytes (a float 0.0 is four of them)
Zeros(n) == [i \in 1..n |-> 0]

\* derived Encodable of Actor::Ship as Ship::new builds it: tag 0, spec,
\* trans (3 floats), vel (2), not_firing_for, accel, rotating, camera (4).
\* The floats are sent as 0.0.
EncodeShip(spec) ==
    << 0 >> \o emit_u32(spec) \o Zeros(24) \o emit_bool(FALSE)
        \o << RotatingTag("Still") >> \o Zeros(16)

\* Encodable for Actors: len as u32, the (id, actor) pairs, count
RECURSIVE EncodePairs(_)
EncodePairs(ids) ==
    IF ids = << >> THEN << >>
    ELSE emit_u32(Head(ids)) \o EncodeShip(0) \o EncodePairs(Tail(ids))

\* derived Encodable of Game{actors, time}; the games of the model hold
\* ships only, named by their ids, and the time is sent as 0.0
EncodeGame(g) ==
    emit_u32(Len(g.ids)) \o EncodePairs(g.ids) \o emit_u32(g.count) \o Zeros(4)

\* derived Encodable of actors::PlayerGame{player, game}
EncodePlayerGame(pg) == emit_u32(pg.player) \o EncodeGame(pg)

\* derived Encodable of the PlayerGame{game, player_id} of dogfights/main.rs
EncodeMainPlayerGame(pg) == EncodeGame(pg) \o emit_u32(pg.player)

\* ------------------------------------------------------------------------
\* bincode reader over BufReader::new(buf): buf is the whole buffer, not the
\* received prefix (recv_and_decode_1 drops the length recv_from returns)

\* the byte at 0-based offset off; bytes never written are 0
ByteAt(buf, off) == IF off < Len(buf) THEN buf[off + 1] ELSE 0

Failed == [ok |-> FALSE, off |-> 0, val |-> 0]

\* DecoderReader::read_u8: fails at the end of the buffer
read_u8(buf, size, off) ==
    IF off + 1 > size THEN Failed
    ELSE [ok |-> TRUE, off |-> off + 1, val |-> ByteAt(buf, off)]

\* DecoderReader::read_u32 where the value is only compared: its four bytes
read_u32_bytes(buf, size, off) ==
    IF off + 4 > size THEN Failed
    ELSE [ok |-> TRUE, off |-> off + 4,
          val |-> << ByteAt(buf, off), ByteAt(buf, off + 1), ByteAt(buf, off + 2),
                     ByteAt(buf, off + 3) >>]

\* DecoderReader::read_u32 (also read_f32: any four bytes are a value)
read_u32(buf, size, off) ==
    IF off + 4 > size THEN Failed
    ELSE [ok |-> TRUE, off |-> off + 4,
          val |-> ByteAt(buf, off) * 16777216 + ByteAt(buf, off + 1) * 65536
                    + ByteAt(buf, off + 2) * 256 + ByteAt(buf, off + 3)]

\* DecoderReader::read_bool: 0 or 1, anything else is InvalidBytes
read_bool(buf, size, off) ==
    LET r == read_u8(buf, size, off) IN
    IF ~r.ok \/ r.val > 1 THEN Failed
    ELSE [ok |-> TRUE, off |-> r.off, val |-> (r.val = 1)]

\* DecoderReader::read_enum_variant: the tag must be < names.len()
read_enum_variant(buf, size, off, nvariants) ==
    LET r == read_u8(buf, size, off) IN
    IF ~r.ok \/ r.val >= nvariants THEN Failed ELSE r

MsgTypeOf(tag) == CASE tag = 0 -> "Ping" [] tag = 1 -> "Pong" [] tag = 2 -> "Normal"

RotatingOf(tag) == CASE tag = 0 -> "Still" [] tag = 1 -> "Left" [] tag = 2 -> "Right"

\* derived Decodable of Header
DecodeHeader(buf, size) ==
    LET p == read_u32_bytes(buf, size, 0)
        s == read_u32(buf, size, 4)
        a == read_u32(buf, size, 8)
        t == read_enum_variant(buf, size, 12, 3)
    IN  IF ~t.ok THEN Failed
        ELSE [ok |-> TRUE, off |-> t.off,
              val |-> [proto_id |-> p.val,
                       local |-> [seq |-> s.val, ack |-> a.val],
                       msg_type |-> MsgTypeOf(t.val)]]

\* derived Decodable of Input
DecodeInput(buf, size, off) ==
    LET q == read_bool(buf, size, off)
        a == read_bool(buf, size, off + 1)
        f == read_bool(buf, size, off + 2)
        r == read_enum_variant(buf, size, off + 3, 3)
        p == read_bool(buf, size, off + 4)
    IN  IF ~(q.ok /\ a.ok /\ f.ok /\ r.ok /\ p.ok) THEN Failed
        ELSE [ok |-> TRUE, off |-> off + 5,
              val |-> [quit |-> q.val, accel |-> a.val, firing |-> f.val,
                       rotating |-> RotatingOf(r.val), paused |-> p.val]]

\* try!(r) followed by the rest of the decoder: the first error is the result
Then(r, Rest(_)) == IF r.ok THEN Rest(r) ELSE Failed

\* n bytes that are a value whatever they hold (floats, u32s nobody looks at)
skip(size, off, n) ==
    IF off + n > size THEN Failed ELSE [ok |-> TRUE, off |-> off + n, val |-> 0]

\* derived Decodable of Actor, variant by variant; the value kept is the tag.
\* Ship: spec, trans (3 floats), vel (2), not_firing_for, accel: bool,
\* rotating: Rotating, camera (4 floats).  Shooter: spec, time_since_fire.
\* Bullet: spec, trans (3 floats), age.
DecodeActor(buf, size, off) ==
    Then(read_enum_variant(buf, size, off, 3), LAMBDA t :
        CASE t.val = 0 ->
                Then(skip(size, t.off, 28), LAMBDA f1 :
                Then(read_bool(buf, size, f1.off), LAMBDA accel :
                Then(read_enum_variant(buf, size, accel.off, 3), LAMBDA rotating :
                Then(skip(size, rotating.off, 16), LAMBDA f2 :
                    [ok |-> TRUE, off |-> f2.off, val |-> 0]))))
          [] t.val = 1 ->
                Then(skip(size, t.off, 8), LAMBDA f :
                    [ok |-> TRUE, off |-> f.off, val |-> 1])
          [] t.val = 2 ->
                Then(skip(size, t.off, 20), LAMBDA f :
                    [ok |-> TRUE, off |-> f.off, val |-> 2]))

\* Decodable for Actors: `for _ in range(0, len)` reads (actor_id, actor);
\* the value kept is the ids in the order read
RECURSIVE DecodePairs(_, _, _, _)
DecodePairs(buf, size, off, n) ==
    IF n = 0 THEN [ok |-> TRUE, off |-> off, val |-> << >>]
    ELSE Then(read_u32(buf, size, off), LAMBDA i :
         Then(DecodeActor(buf, size, i.off), LAMBDA a :
         Then(DecodePairs(buf, size, a.off, n - 1), LAMBDA rest :
             [rest EXCEPT !.val = << i.val >> \o @])))

\* derived Decodable of Game{actors, time}
DecodeGame(buf, size, off) ==
    Then(read_u32(buf, size, off), LAMBDA n :
    Then(DecodePairs(buf, size, n.off, n.val), LAMBDA ps :
    Then(read_u32(buf, size, ps.off), LAMBDA c :
    Then(skip(size, c.off, 4), LAMBDA t :
        [ok |-> TRUE, off |-> t.off, val |-> [ids |-> ps.val, count |-> c.val]]))))

\* derived Decodable of actors::PlayerGame{player, game}
DecodePlayerGame(buf, size, off) ==
    Then(read_u32(buf, size, off), LAMBDA p :
    Then(DecodeGame(buf, size, p.off), LAMBDA g :
        [g EXCEPT !.val = [player |-> p.val, ids |-> g.val.ids,
                           count |-> g.val.count]]))

\* derived Decodable of the PlayerGame{game, player_id} of dogfights/main.rs
DecodeMainPlayerGame(buf, size, off) ==
    Then(DecodeGame(buf, size, off), LAMBDA g :
    Then(read_u32(buf, size, g.off), LAMBDA p :
        [p EXCEPT !.val = [player |-> p.val, ids |-> g.val.ids,
                           count |-> g.val.count]]))

\* ------------------------------------------------------------------------
\* The same codec on whole values.  An f32 is the four bytes that
\* write_be_f32 writes and read_be_f32 reads; a registry is a function from
\* ids to actors and its count.

\* derived Encodable of Vec2
EncodeVec2(v) == v.x \o v.y

\* derived Encodable of Transform{pos, rotation}
EncodeTransform(t) == EncodeVec2(t.pos) \o t.rotation

\* derived Encodable of Camera{pos, vel}
EncodeCamera(c) == EncodeVec2(c.pos) \o EncodeVec2(c.vel)

\* derived Encodable of Actor: the tag of the variant, then its struct
EncodeActorValue(a) ==
    CASE a.kind = "Ship" ->
            << 0 >> \o emit_u32(a.spec) \o EncodeTransform(a.trans) \o EncodeVec2(a.vel)
                \o a.not_firing_for \o emit_bool(a.accel)
                \o << RotatingTag(a.rotating) >> \o EncodeCamera(a.camera)
      [] a.kind = "Shooter" ->
            << 1 >> \o emit_u32(a.spec) \o a.time_since_fire
      [] a.kind = "Bullet" ->
            << 2 >> \o emit_u32(a.spec) \o EncodeTransform(a.trans) \o a.age

\* Encodable for Actors, the loop over self.actors.iter(): each pair as
\* (id, actor), in the order the HashMap hands them out
RECURSIVE EncodePairValues(_, _)
EncodePairValues(as, order) ==
    IF order = << >> THEN << >>
    ELSE emit_u32(Head(order)) \o EncodeActorValue(as.actors[Head(order)])
             \o EncodePairValues(as, Tail(order))

\* Encodable for Actors: len as u32, the pairs, count
EncodeActorsValue(as, order) ==
    emit_u32(Len(order)) \o EncodePairValues(as, order) \o emit_u32(as.count)

\* derived Encodable of Game{actors, time}
EncodeGameValue(g, order) == EncodeActorsValue(g.actors, order) \o g.time

\* derived Encodable of PlayerGame{player, game}
EncodePlayerGameValue(pg, order) ==
    emit_u32(pg.player) \o EncodeGameValue(pg.game, order)

\* derived Decodable of Vec2
DecodeVec2(buf, size, off) ==
    Then(read_u32_bytes(buf, size, off), LAMBDA x :
    Then(read_u32_bytes(buf, size, x.off), LAMBDA y :
        [y EXCEPT !.val = [x |-> x.val, y |-> y.val]]))

\* derived Decodable of Transform
DecodeTransform(buf, size, off) ==
    Then(DecodeVec2(buf, size, off), LAMBDA pos :
    Then(read_u32_bytes(buf, size, pos.off), LAMBDA rotation :
        [rotation EXCEPT !.val = [pos |-> pos.val, rotation |-> rotation.val]]))

\* derived Decodable of Camera
DecodeCamera(buf, size, off) ==
    Then(DecodeVec2(buf, size, off), LAMBDA pos :
    Then(DecodeVec2(buf, size, pos.off), LAMBDA vel :
        [vel EXCEPT !.val = [pos |-> pos.val, vel |-> vel.val]]))

\* derived Decodable of Ship
DecodeShipValue(buf, size, off) ==
    Then(read_u32(buf, size, off), LAMBDA spec :
    Then(DecodeTransform(buf, size, spec.off), LAMBDA trans :
    Then(DecodeVec2(buf, size, trans.off), LAMBDA vel :
    Then(read_u32_bytes(buf, size, vel.off), LAMBDA nff :
    Then(read_bool(buf, size, nff.off), LAMBDA accel :
    Then(read_enum_variant(buf, size, accel.off, 3), LAMBDA rotating :
    Then(DecodeCamera(buf, size, rotating.off), LAMBDA camera :
        [camera EXCEPT !.val =
            [kind |-> "Ship", spec |-> spec.val, trans |-> trans.val, vel |-> vel.val,
             not_firing_for |-> nff.val, accel |-> accel.val,
             rotating |-> RotatingOf(rotating.val), camera |-> camera.val]])))))))

\* derived Decodable of Shooter
DecodeShooterValue(buf, size, off) ==
    Then(read_u32(buf, size, off), LAMBDA spec :
    Then(read_u32_bytes(buf, size, spec.off), LAMBDA tsf :
        [tsf EXCEPT !.val = [kind |-> "Shooter", spec |-> spec.val,
                             time_since_fire |-> tsf.val]]))

\* derived Decodable of Bullet
DecodeBulletValue(buf, size, off) ==
    Then(read_u32(buf, size, off), LAMBDA spec :
    Then(DecodeTransform(buf, size, spec.off), LAMBDA trans :
    Then(read_u32_bytes(buf, size, trans.off), LAMBDA age :
        [age EXCEPT !.val = [kind |-> "Bullet", spec |-> spec.val,
                             trans |-> trans.val, age |-> age.val]])))

\* derived Decodable of Actor
DecodeActorValue(buf, size, off) ==
    Then(read_enum_variant(buf, size, off, 3), LAMBDA t :
        CASE t.val = 0 -> DecodeShipValue(buf, size, t.off)
          [] t.val = 1 -> DecodeShooterValue(buf, size, t.off)
          [] t.val = 2 -> DecodeBulletValue(buf, size, t.off))

\* Decodable for Actors, the loop: actors.insert(actor_id, actor), n times
RECURSIVE DecodePairValues(_, _, _, _, _)
DecodePairValues(buf, size, off, n, actors_) ==
    IF n = 0 THEN [ok |-> TRUE, off |-> off, val |-> actors_]
    ELSE Then(read_u32(buf, size, off), LAMBDA i :
         Then(DecodeActorValue(buf, size, i.off), LAMBDA a :
             DecodePairValues(buf, size, a.off, n - 1,
                 [k \in DOMAIN actors_ \cup {i.val} |->
                     IF k = i.val THEN a.val ELSE actors_[k]])))

\* a registry whose count is the number of its actors
ActorsCounted(actors_, count_) == [actors |-> actors_, count |-> Cardinality(DOMAIN actors_)]

\* Actors{actors: actors, count: count}
ActorsOf(actors_, count_) == [actors |-> actors_, count |-> count_]

\* Decodable for Actors
DecodeActorsValue(buf, size, off) ==
    Then(read_u32(buf, size, off), LAMBDA len :
    Then(DecodePairValues(buf, size, len.off, len.val, << >>), LAMBDA ps :
    Then(read_u32(buf, size, ps.off), LAMBDA c :
        [c EXCEPT !.val = ActorsOf(ps.val, c.val)])))

\* derived Decodable of Game
DecodeGameValue(buf, size, off) ==
    Then(DecodeActorsValue(buf, size, off), LAMBDA as :
    Then(read_u32_bytes(buf, size, as.off), LAMBDA time :
        [time EXCEPT !.val = [actors |-> as.val, time |-> time.val]]))

\* derived Decodable of PlayerGame
DecodePlayerGameValue(buf, size, off) ==
    Then(read_u32(buf, size, off), LAMBDA p :
    Then(DecodeGameValue(buf, size, p.off), LAMBDA g :
        [g EXCEPT !.val = [player |-> p.val, game |-> g.val]]))

\* bincode::encode of a value of type T; order is the order of its HashMap
EncodeValue(T, v, order) ==
    CASE T = "Input" -> EncodeInput(v)
      [] T = "Actor" -> EncodeActorValue(v)
      [] T = "Actors" -> EncodeActorsValue(v, order)
      [] T = "Game" -> EncodeGameValue(v, order)
      [] T = "PlayerGame" -> EncodePlayerGameValue(v, order)

\* bincode::decode::<T> of the bytes b, read through a MemReader
DecodeValue(T, b) ==
    CASE T = "Input" -> DecodeInput(b, Len(b), 0)
      [] T = "Actor" -> DecodeActorValue(b, Len(b), 0)
      [] T = "Actors" -> DecodeActorsValue(b, Len(b), 0)
      [] T = "Game" -> DecodeGameValue(b, Len(b), 0)
      [] T = "PlayerGame" -> DecodePlayerGameValue(b, Len(b), 0)

\* Decodable of the body type T the caller of recv asks for
DecodeBody(T, buf, size, off) ==
    CASE T = "Input" -> DecodeInput(buf, size, off)
      [] T = "PlayerGame" -> DecodePlayerGame(buf, size, off)
      [] T = "MainPlayerGame" -> DecodeMainPlayerGame(buf, size, off)

\* bincode::decode_from::<Packet<T>>: header, then body, one error for both
DecodePacket(T, buf, size) ==
    LET h == DecodeHeader(buf, size) IN
    IF ~h.ok THEN Failed
    ELSE LET b == DecodeBody(T, buf, size, h.off) IN
         IF b.ok THEN [b EXCEPT !.val = [header |-> h.val, body |-> @]] ELSE Failed

\* UdpSocket::recv_from(buf): the datagram overwrites a prefix of the buffer
RecvInto(buf, data) ==
    IF Len(data) >= Len(buf) THEN data
    ELSE data \o SubSeq(buf, Len(data) + 1, Len(buf))

\* ------------------------------------------------------------------------
\* Conn (network/lib.rs)

\* a bump that leaves the counter as it is, which the properties must tell
\* from bump
bump_nothing(seq) == seq

\* Seq::bump: self.0 += 1 (a u32; MaxPackets keeps it far from 2^32)
bump(seq) == seq + 1

\* the newer value whatever the older is, which the properties must tell from
\* more_recent
more_recent_latest(x, y) == y

\* Seq::more_recent
more_recent(x, y) == IF x > y THEN x ELSE y

\* Conn::new at time t (sdl2::get_ticks())
ConnNew(t) ==
    [local |-> [seq |-> 0, ack |-> 0], remote |-> [ack |-> 0, received |-> t]]

\* a tickle that also counts the packet as sent, which the properties must
\* tell from tickle
tickle_bumping(conn, remote_local, t) ==
    [local |-> [seq |-> conn.local.seq + 1,
                ack |-> more_recent(conn.local.ack, remote_local.seq)],
     remote |-> [ack |-> more_recent(conn.remote.ack, remote_local.ack),
                 received |-> t]]

\* a tickle that leaves the time of the last receive as it was
tickle_stale(conn, remote_local, t) ==
    [local |-> [seq |-> conn.local.seq,
                ack |-> more_recent(conn.local.ack, remote_local.seq)],
     remote |-> [ack |-> more_recent(conn.remote.ack, remote_local.ack),
                 received |-> conn.remote.received]]

\* Conn::tickle at time t
tickle(conn, remote_local, t) ==
    [local |-> [seq |-> conn.local.seq,
                ack |-> more_recent(conn.local.ack, remote_local.seq)],
     remote |-> [ack |-> more_recent(conn.remote.ack, remote_local.ack),
                 received |-> t]]

\* a timeout test with >= for >, which the properties must tell from TimedOut
TimedOutAtTimeout(conn, t) == t - conn.remote.received >= CONN_TIMEOUT

\* the timeout test of encode_and_send: now - conn.remote.received > CONN_TIMEOUT
TimedOut(conn, t) == t - conn.remote.received > CONN_TIMEOUT

\* an encode_and_send whose writer never runs out of buffer
encode_and_send_unbounded(conn, t, bufsize, msg_type, body, io_ok) ==
    IF TimedOut(conn, t)
    THEN [conn |-> conn, res |-> "Closed", wire |-> << >>]
    ELSE [conn |-> [conn EXCEPT !.local.seq = bump(@)],
          res |-> IF io_ok THEN "Ok" ELSE "IoError",
          wire |-> IF io_ok
                   THEN << EncodeHeader([conn EXCEPT !.local.seq = bump(@)].local,
                                        msg_type) \o body >>
                   ELSE << >>]

\* encode_and_send at time t into a buffer of bufsize bytes; io_ok is whether
\* sock.send_to succeeds.  Gives the Conn afterwards, the result and the
\* datagrams put on the wire (none or one).
encode_and_send(conn, t, bufsize, msg_type, body, io_ok) ==
    IF TimedOut(conn, t)
    THEN [conn |-> conn, res |-> "Closed", wire |-> << >>]
    ELSE LET bumped == [conn EXCEPT !.local.seq = bump(@)]
             bytes == EncodeHeader(bumped.local, msg_type) \o body
         IN  IF Len(bytes) > bufsize
             THEN [conn |-> bumped, res |-> "EncodeError", wire |-> << >>]
             ELSE IF ~io_ok
             THEN [conn |-> bumped, res |-> "IoError", wire |-> << >>]
             ELSE [conn |-> bumped, res |-> "Ok", wire |-> << bytes >>]

\* send_ping: a Ping with the body ()
send_ping(conn, t, io_ok) ==
    encode_and_send(conn, t, PING_BUF_SIZE, "Ping", << >>, io_ok)

\* send_pong: a Pong with the body ()
send_pong(conn, t, io_ok) ==
    encode_and_send(conn, t, PING_BUF_SIZE, "Pong", << >>, io_ok)

\* recv_and_decode_2::<T> on the buffer recv_from has just written into.
\* ret is "None" (dropped, or Ping/Pong), "Some" (a body) or "Err" (the Pong
\* could not be sent: try! returns the error).
recv_and_decode_2(conn, T, buf, t, io_ok) ==
    LET packet == DecodePacket(T, buf, MAX_PACKET_SIZE) IN
    IF ~packet.ok
    THEN [conn |-> conn, ret |-> "None", body |-> 0, wire |-> << >>]
    ELSE IF packet.val.header.proto_id # PROTO_ID
    THEN [conn |-> conn, ret |-> "None", body |-> 0, wire |-> << >>]
    ELSE LET tickled == tickle(conn, packet.val.header.local, t) IN
         CASE packet.val.header.msg_type = "Ping" ->
                LET pong == send_pong(tickled, t, io_ok) IN
                [conn |-> pong.conn,
                 ret |-> IF pong.res = "Ok" THEN "None" ELSE "Err",
                 body |-> 0, wire |-> pong.wire]
           [] packet.val.header.msg_type = "Pong" ->
                [conn |-> tickled, ret |-> "None", body |-> 0, wire |-> << >>]
           [] packet.val.header.msg_type = "Normal" ->
                [conn |-> tickled, ret |-> "Some", body |-> packet.val.body,
                 wire |-> << >>]

\* ------------------------------------------------------------------------
\* The registry of actors and the game (actors/lib.rs).  Time is counted in
\* steps of TIME_STEP and lengths in pixels.  The GameSpec is one in which
\* every position is a whole number: the map, the ship's thrust, the bullet's
\* speed, shoot_from and the shooter's place are those of init_spec, a ship
\* has no friction, no gravity and does not turn (rotation stays 0, as
\* Transform::pos leaves it), a bullet lives BULLET_LIFETIME_TICKS steps and
\* a shooter waits SHOOTER_FIRING_RATE_TICKS steps.

\* conf: the screen
SCREEN_WIDTH == 800

SCREEN_HEIGHT == 600

\* Map.w and Map.h
MAP_W == 8000

MAP_H == 6000

\* ShipSpec.accel, 800 px/s^2, in pixels per step per step
SHIP_ACCEL_TICK == 2

\* ShipSpec.shoot_from, rotated by 0
SHOOT_FROM_X == 18

\* BulletSpec.vel, 1000 px/s, in pixels per step
BULLET_VEL_TICK == 50

\* BulletSpec.lifetime, in steps
BULLET_LIFETIME_TICKS == 2

\* ShooterSpec.trans: where it stands, and the 270 degrees it looks at
\* (cos = 0, sin = -1), as the cosine and the sine of its rotation
SHOOTER_X == 1000

SHOOTER_Y == 200

ShooterTrans == [x |-> SHOOTER_X, y |-> SHOOTER_Y, cos |-> 0, sin |-> -1]

\* ShooterSpec.firing_rate, in steps
SHOOTER_FIRING_RATE_TICKS == 2

\* Vec2::zero
Vec2Zero == [x |-> 0, y |-> 0]

\* Map::bound
bound(p) ==
    [p EXCEPT !.x = IF p.x < 0 THEN 0 ELSE IF p.x > MAP_W THEN MAP_W ELSE p.x,
              !.y = IF p.y < 0 THEN 0 ELSE IF p.y > MAP_H THEN MAP_H ELSE p.y]

\* the Map of init_spec
TheMap == [w |-> MAP_W, h |-> MAP_H]

\* CameraSpec: accel, 1.2, in tenths, and the two pads
CAMERA_ACCEL_TENTHS == 12

H_PAD == 220

V_PAD == 165

\* Map::bound_rect, its inner f
bound_rect_f(n, edge, m) ==
    IF n < 0 THEN 0 ELSE IF n + edge > m THEN m - edge ELSE n

\* a bound_rect that keeps the left and the top edge only
bound_rect_left_top(map, p, w, h) ==
    [x |-> IF p.x < 0 THEN 0 ELSE p.x, y |-> IF p.y < 0 THEN 0 ELSE p.y]

\* Map::bound_rect
bound_rect(map, p, w, h) ==
    [x |-> bound_rect_f(p.x, w, map.w), y |-> bound_rect_f(p.y, h, map.h)]

\* the Camera of Ship::new
CameraNew(pos) ==
    [pos |-> [x |-> pos.x - SCREEN_WIDTH \div 2, y |-> pos.y - SCREEN_HEIGHT \div 2],
     vel |-> Vec2Zero]

\* Camera::advance, the camera pushed by the ship: cam.pos + cam.vel * dt
CameraPushed(cam_, ship_vel) ==
    [pos |-> [x |-> cam_.pos.x + (ship_vel.x * CAMERA_ACCEL_TENTHS) \div 10,
              y |-> cam_.pos.y + (ship_vel.y * CAMERA_ACCEL_TENTHS) \div 10],
     vel |-> [x |-> (ship_vel.x * CAMERA_ACCEL_TENTHS) \div 10,
              y |-> (ship_vel.y * CAMERA_ACCEL_TENTHS) \div 10]]

\* Camera::advance, the ship kept away from the edges of the screen
CameraPadded(cam_, ship_pos) ==
    [cam_ EXCEPT
        !.pos.x = IF cam_.pos.x + H_PAD > ship_pos.x THEN ship_pos.x - H_PAD
                  ELSE IF (cam_.pos.x + SCREEN_WIDTH) - H_PAD < ship_pos.x
                       THEN (ship_pos.x + H_PAD) - SCREEN_WIDTH
                       ELSE cam_.pos.x,
        !.pos.y = IF cam_.pos.y + V_PAD > ship_pos.y THEN ship_pos.y - V_PAD
                  ELSE IF (cam_.pos.y + SCREEN_HEIGHT) - V_PAD < ship_pos.y
                       THEN (ship_pos.y + V_PAD) - SCREEN_HEIGHT
                       ELSE cam_.pos.y]

\* Camera::advance
CameraAdvance(map, cam_, ship_vel, ship_pos) ==
    [CameraPadded(CameraPushed(cam_, ship_vel), ship_pos) EXCEPT
        !.pos = bound_rect(map, CameraPadded(CameraPushed(cam_, ship_vel), ship_pos).pos,
                           SCREEN_WIDTH, SCREEN_HEIGHT)]

\* what Camera::advance was called with
CameraEvent(op, map, ship_pos) == [op |-> op, map |-> map, ship_pos |-> ship_pos]

\* Ship::new at ship_pos: not_firing_for is 100000 s; kept at
\* FIRING_INTERVAL_TICKS once it has got there, which is all Ship::advance
\* asks of it.  trans is the position with the cosine and sine of rotation 0
ShipAt(x, y) ==
    [kind |-> "Ship", accel |-> FALSE, rotating |-> "Still",
     not_firing_for |-> FIRING_INTERVAL_TICKS,
     trans |-> [x |-> x, y |-> y, cos |-> 1, sin |-> 0], vel |-> Vec2Zero]

\* Game::add_ship: the ship in the middle of the screen
ShipNew == ShipAt(SCREEN_WIDTH \div 2, SCREEN_HEIGHT \div 2)

\* Bullet{spec, trans, age: 0}: the age of a Bullet is not_firing_for here
BulletAt(trans) ==
    [kind |-> "Bullet", accel |-> FALSE, rotating |-> "Still",
     not_firing_for |-> 0, trans |-> trans, vel |-> Vec2Zero]

\* the bullet of a ship that has just joined and fires
BulletNew == BulletAt([ShipNew.trans EXCEPT !.x = @ + SHOOT_FROM_X])

\* Shooter{spec, time_since_fire}: time_since_fire is not_firing_for here
ShooterNew ==
    [kind |-> "Shooter", accel |-> FALSE, rotating |-> "Still",
     not_firing_for |-> 0, trans |-> ShooterTrans, vel |-> Vec2Zero]

\* Actors::new
ActorsNew == [actors |-> << >>, count |-> 0]

\* Game::new
GameNew == [actors |-> ActorsNew, time |-> 0]

\* a prepare_new that starts the ids again
prepare_new_from_zero(old) == [actors |-> << >>, count |-> 0]

\* Actors::prepare_new
prepare_new(old) == [actors |-> << >>, count |-> old.count]

\* Actors::insert
insert(as, actor_id, actor) ==
    [actors |-> [k \in DOMAIN as.actors \cup {actor_id} |->
                    IF k = actor_id THEN actor ELSE as.actors[k]],
     count |-> as.count]

\* an add that hands the same id out again
add_keeping_count(as, actor) ==
    [as |-> insert(as, as.count, actor), id |-> as.count]

\* Actors::add: the new registry and the id it returns
add(as, actor) ==
    [as |-> insert([as EXCEPT !.count = @ + 1], as.count, actor), id |-> as.count]

\* a remove that leaves the actor in
remove_nothing(as, actor_id) == as

\* Actors::remove
remove(as, actor_id) ==
    [actors |-> [k \in DOMAIN as.actors \ {actor_id} |-> as.actors[k]],
     count |-> as.count]

\* Option<Input>
NoInput ==
    [some |-> FALSE,
     val |-> [quit |-> FALSE, accel |-> FALSE, firing |-> FALSE,
              rotating |-> "Still", paused |-> FALSE]]

\* PlayerInput::lookup: the first input of the batch that is for actor_id
lookup(inputs, actor_id) ==
    IF \E i \in 1..Len(inputs) : inputs[i].player = actor_id
    THEN [some |-> TRUE,
          val |-> inputs[CHOOSE i \in 1..Len(inputs) :
                            /\ inputs[i].player = actor_id
                            /\ \A j \in 1..(i - 1) : inputs[j].player # actor_id].input]
    ELSE NoInput

\* Ship::advance, what it fires and what it keeps of the input: firing is
\* decided on not_firing_for as it was before this step
ShipFires(ship, input) ==
    input.some /\ input.val.firing /\ ship.not_firing_for >= FIRING_INTERVAL_TICKS

\* ShipState::accel: the thrust along the rotation, no gravity, no friction
ShipForce(accel, trans) ==
    IF accel THEN [x |-> trans.cos * SHIP_ACCEL_TICK, y |-> -1 * trans.sin * SHIP_ACCEL_TICK]
    ELSE Vec2Zero

\* physics::integrate under a force that does not depend on the state: the
\* four derivatives are vel, vel + f/2, vel + f/2 and vel + f, their weighted
\* mean is vel + f/2
integrate(f, trans, vel) ==
    [trans |-> [trans EXCEPT !.x = @ + vel.x + (f.x \div 2),
                             !.y = @ + vel.y + (f.y \div 2)],
     vel |-> [x |-> vel.x + f.x, y |-> vel.y + f.y]]

\* a ship that goes back to rest when it gets no Input
ShipMovedResting(ship, input) ==
    [ship EXCEPT !.accel = input.some /\ input.val.accel,
                 !.rotating = IF input.some THEN input.val.rotating ELSE "Still",
                 !.not_firing_for = IF ShipFires(ship, input) THEN 0
                                    ELSE IF @ + 1 >= FIRING_INTERVAL_TICKS
                                         THEN FIRING_INTERVAL_TICKS ELSE @ + 1]

\* the ship that Ship::advance returns
ShipMoved(ship, input) ==
    LET accel == IF input.some THEN input.val.accel ELSE ship.accel
        st == integrate(ShipForce(accel, ship.trans), ship.trans, ship.vel)
    IN  [kind |-> "Ship",
         accel |-> accel,
         rotating |-> IF input.some THEN input.val.rotating ELSE ship.rotating,
         not_firing_for |->
             IF ShipFires(ship, input) THEN 0
             ELSE IF ship.not_firing_for + 1 >= FIRING_INTERVAL_TICKS
                  THEN FIRING_INTERVAL_TICKS
                  ELSE ship.not_firing_for + 1,
         trans |-> bound(st.trans),
         vel |-> st.vel]

\* the bullet of a ship that fires: trans + shoot_from.rotate(trans.rotation)
ShipBullet(trans) ==
    BulletAt([trans EXCEPT !.x = @ + SHOOT_FROM_X * trans.cos,
                           !.y = @ - SHOOT_FROM_X * trans.sin])

\* Ship::advance: the registry it has added its bullet to, and Some(ship)
ShipAdvance(ship, as, input) ==
    [as |-> IF ShipFires(ship, input)
            THEN add(as, ShipBullet(ShipMoved(ship, input).trans)).as
            ELSE as,
     some |-> TRUE,
     actor |-> ShipMoved(ship, input)]

\* the bullet that Bullet::advance makes
BulletMoved(bullet) ==
    [bullet EXCEPT !.trans.x = @ + BULLET_VEL_TICK * bullet.trans.cos,
                   !.trans.y = @ + (-1) * BULLET_VEL_TICK * bullet.trans.sin,
                   !.not_firing_for = @ + 1]

\* a bullet that nothing ends
alive_forever(bullet) == TRUE

\* alive in Bullet::advance
alive(bullet) ==
    /\ bullet.trans.x >= 0 /\ bullet.trans.x <= MAP_W
    /\ bullet.trans.y >= 0 /\ bullet.trans.y <= MAP_H
    /\ bullet.not_firing_for < BULLET_LIFETIME_TICKS

\* Bullet::advance: Some(bullet) if it is alive
BulletAdvance(bullet, as) ==
    [as |-> as, some |-> alive(BulletMoved(bullet)), actor |-> BulletMoved(bullet)]

\* a shooter that fires as soon as time_since_fire + dt reaches firing_rate
ShooterFiresAtRate(shooter) == shooter.not_firing_for + 1 >= SHOOTER_FIRING_RATE_TICKS

\* Shooter::advance fires when time_since_fire + dt > firing_rate
ShooterFires(shooter) == shooter.not_firing_for + 1 > SHOOTER_FIRING_RATE_TICKS

\* Shooter::advance
ShooterAdvance(shooter, as) ==
    [as |-> IF ShooterFires(shooter) THEN add(as, BulletAt(ShooterTrans)).as ELSE as,
     some |-> TRUE,
     actor |-> [shooter EXCEPT !.not_firing_for =
                    IF ShooterFires(shooter) THEN 0 ELSE @ + 1]]

\* Actor::advance
ActorAdvance(actor, as, input) ==
    CASE actor.kind = "Ship" -> ShipAdvance(actor, as, input)
      [] actor.kind = "Shooter" -> ShooterAdvance(actor, as)
      [] actor.kind = "Bullet" -> BulletAdvance(actor, as)

\* what one round of the first loop of Game::advance does to advanced_actors
AdvanceOne(r, actor_id) ==
    IF r.some THEN insert(r.as, actor_id, r.actor) ELSE r.as

\* Game::advance, the first loop: the actors of old, visited in order
RECURSIVE AdvanceAll(_, _, _, _)
AdvanceAll(old, order, inputs, advanced_actors) ==
    IF order = << >> THEN advanced_actors
    ELSE AdvanceAll(old, Tail(order), inputs,
             AdvanceOne(ActorAdvance(old.actors[Head(order)], advanced_actors,
                                     lookup(inputs, Head(order))),
                        Head(order)))

\* a second loop in which Actor::interact gives no actor back
InteractNone(advanced_actors) == prepare_new(advanced_actors)

\* Game::advance, the second loop: Actor::interact gives every actor back
InteractAll(advanced_actors) ==
    [actors |-> [k \in DOMAIN advanced_actors.actors |-> advanced_actors.actors[k]],
     count |-> prepare_new(advanced_actors).count]

\* Game::advance with the order in which the HashMap hands out its actors
GameAdvance(game, inputs, order) ==
    [actors |-> InteractAll(AdvanceAll(game.actors, order, inputs,
                                       prepare_new(game.actors))),
     time |-> game.time + 1]

\* Game::add_ship: the new game and the id of the ship
add_ship(game) ==
    [game |-> [game EXCEPT !.actors = add(game.actors, ShipNew).as],
     id |-> add(game.actors, ShipNew).id]

\* the orders in which a HashMap with the keys S can be iterated
Orders(S) ==
    { o \in [1..Cardinality(S) -> S] :
          \A i, j \in 1..Cardinality(S) : i # j => o[i] # o[j] }

\* ------------------------------------------------------------------------
\* The processes: one Client bound to ClientAddr and connected to ServerAddr,
\* one network::Server, and a third party that sends what it likes.

ServerAddr == "s"
ClientAddr == "c"
ForeignAddr == "x"

\* a handle that would take the foreign address for its server
connected_to_foreign == "x"

\* ClientHandle.connected_to
connected_to == ServerAddr

\* the addresses a datagram can reach the server from
Peers == {ClientAddr, ForeignAddr}


\* the Inputs the client sends
Inputs ==
    { [quit |-> FALSE, accel |-> FALSE, firing |-> FALSE, rotating |-> "Still",
       paused |-> FALSE] }

\* the PlayerGames the server sends: the player's ship in the game
Games == { [player |-> 0, ids |-> << 0 >>, count |-> 1] }

\* a PlayerGame with n ships
GameOf(n) == [player |-> 0, ids |-> [i \in 1..n |-> i - 1], count |-> n]

\* the PlayerGames of a crowded game: the largest that fits into a datagram
\* with its header, and the first that does not
LargeGames == { GameOf(MaxSentShips - 1), GameOf(MaxSentShips) }

\* a header as bytes, with any magic, seq, ack and tag
RawHeader(proto, seq, ack, tag) ==
    proto \o emit_u32(seq) \o emit_u32(ack) \o << tag >>

\* datagrams of the third party: a Normal with another magic
WrongMagic == RawHeader(<< 208, 95, 21, 118 >>, 1, 0, 2) \o << 0, 0, 0, 0, 0 >>

\* a Normal whose Input has 2 for the bool accel
BadBool == RawHeader(PROTO_ID, 1, 0, 2) \o << 0, 2, 0, 0, 0 >>

\* a Normal cut after its header
HeaderOnly == RawHeader(PROTO_ID, 1, 0, 2)

\* a Ping
ForeignPing == RawHeader(PROTO_ID, 2, 1, 0)

\* a Normal with a game of no ships
ForeignGame ==
    RawHeader(PROTO_ID, 2, 2, 2) \o EncodePlayerGame([player |-> 1, ids |-> << >>,
                                                      count |-> 0])

\* what the third party sends to the server
ForeignToServer == { WrongMagic, BadBool, HeaderOnly, ForeignPing }

\* what the third party sends to the client
ForeignToClient == { ForeignPing, ForeignGame }

VARIABLES
    now,          \* sdl2::get_ticks(), in ms
    conn,         \* ClientHandle.conn, the client's Conn
    client_buf,   \* ClientHandle.buf of the handle that receives
    clients,      \* network::Server.clients: peer address -> Conn
    server_buf,   \* buf of the Server::recv call in progress
    wire,         \* the datagrams in flight
    queue,        \* dogfights Server: the worker's queue of Messages
    game_clients, \* dogfights Server.clients: peer address -> ActorId of its ship
    actors,       \* dogfights Server.game.actors: the ids of the ships
    count,        \* dogfights Server.game.actors.count: the next ActorId
    pc,           \* where Server::run is: "sleep" or "broadcast"
    todo,         \* broadcast_game: the clients the for loop has not visited
    cur,          \* broadcast_game: the client sent to and not yet checked
    dead,         \* broadcast_game: dead
    npackets,     \* packets sent so far
    sent,         \* per Conn, local.seq of each packet put on the wire so far
    heard,        \* per Conn, the highest local.seq among the headers received
    closed,       \* the clients whose send returned Closed in this
                  \* broadcast_game, each with its ship
    ev            \* what the last step did

\* A Conn is named by the address of its peer: ServerAddr names the client's
\* Conn, a peer's address the server's Conn for that peer.
VARIABLES
    games,        \* server Server.games: the ring of Games, the newest first
    srv_clients,  \* server Server.clients: ActorId -> the Games in its channel
    cmds_chan,    \* the channel of (ActorId, Input) behind cmds_tx / cmds_rx
    cmds,         \* prepare_inputs: cmds, the batch being drained
    spc,          \* where Server::run of server/lib.rs is
    sdead,        \* broadcast: dead, the ids remove_player is still to get
    rm_cur,       \* remove_player: the id that has left clients and not yet
                  \* the game, -1 when there is none
    join_handle,  \* a JoinHandle is alive
    send_handles, \* the ids whose ServerClientSend is alive
    recv_handles, \* the ids whose ServerClientRecv is alive
    joining,      \* join: the ids that have a ship and no sender yet
    ntick,        \* iterations of the loop of Server::run begun so far
    nsent,        \* inputs sent on cmds_tx so far; input n is the n-th
    fate,         \* input n -> the iteration whose batch it went into, 0 if none
    sent_in,      \* input n -> the iteration it was sent in, and whether
                  \* prepare_inputs was running then
    received,     \* ActorId -> the times of the Games recv_game has yielded
    reg_at,       \* ActorId -> the time of the front Game when join
                  \* registered its sender
    issued,       \* every ActorId that has been a key of a front Game
    bc,           \* as the last broadcast began: the ids in clients, the ids
                  \* in the front Game, the ids whose receive handle was dropped
    new_game,     \* run: the Game of this iteration, which broadcast sends
    sev           \* what the last step of the server or of a player did

VARIABLES
    client_alive, \* the Client has not been dropped
    close_signal, \* the () messages in the channel behind Client.ping_worker
    wpc,          \* where the thread of Client::ping_worker is
    npings,       \* rounds of the worker that got to send_ping
    after_drop    \* calls of send_ping begun after the Client was dropped

netvars == << now, conn, client_buf, clients, server_buf, wire >>
srvvars == << games, srv_clients, cmds_chan, cmds, spc, sdead, rm_cur, join_handle,
              send_handles, recv_handles, joining, ntick, nsent, fate, sent_in,
              received, reg_at, issued, bc, new_game, sev >>
pingvars == << client_alive, close_signal, wpc, npings, after_drop >>
gamevars == << queue, game_clients, actors, count, pc, todo, cur, dead >>
ghostvars == << npackets, sent, heard, closed, ev >>
\* the values that the functions of actors/lib.rs are applied to: a Game, what
\* was last done to it, and the ids its registry has handed out
VARIABLES
    G,
    gev,
    gissued

actorvars == << G, gev, gissued >>

\* a Camera and what Camera::advance was last called with
VARIABLES
    cam,
    cev

camvars == << cam, cev >>

\* a value, the bytes bincode::encode makes of it and what bincode::decode
\* makes of the bytes
VARIABLES
    ctype,
    cval,
    cbytes,
    cdec,
    cpc

codecvars == << ctype, cval, cbytes, cdec, cpc >>

\* attach_sdl: the thread that sends inputs, the main loop, the channel
\* between them and the handle the main loop receives from
VARIABLES
    qkind,        \* the handle: "inproc" (ServerClientRecv) or "udp" (ClientHandle)
    ipc,          \* where the input thread is: "loop" or "done"
    quit_chan,    \* the channel of quit_tx / quit_rx: its messages, and
                  \* whether quit_tx is alive
    mpc,          \* where the main loop is
    qpeer,        \* "up" while the server goes on sending Games to this
                  \* handle, "gone" when it has stopped
    qinbox,       \* the Games that recv would give at once
    qrounds,      \* calls of on_game_update since the quit was signalled
    qpolls,       \* rounds of the loop of recv_game in this call, counted
                  \* modulo MaxPolls + 1
    qsends        \* calls of send_input by the input thread

quitvars == << qkind, ipc, quit_chan, mpc, qpeer, qinbox, qrounds, qpolls, qsends >>

\* the threads of a client that send on its Conn: the heartbeat and the
\* ClientHandles, which are clones of one another
VARIABLES
    hconn,        \* the Conn behind the Arc<Mutex<Conn>> they share
    hlock,        \* the thread that holds the Mutex, "none" if none does
    hpc,          \* thread -> where it is in its call
    hreg,         \* thread -> the seq it has read in bump
    hwire,        \* the packets sent: the thread, and local.seq of the header
    hbumps,       \* calls of bump that have finished
    hcalls        \* calls of encode_and_send begun

racevars == << hconn, hlock, hpc, hreg, hwire, hbumps, hcalls >>

\* the threads of server/lib.rs that take the mutexes of the Server: the
\* thread of run and the threads that call join
VARIABLES
    lheld,        \* mutex -> the thread that holds it, "none" if none does
    lprog,        \* thread -> the steps it still has to take
    lclients,     \* the number of senders in clients
    lticks        \* iterations of run begun

lockvars == << lheld, lprog, lclients, lticks >>

threadvars == << quitvars, racevars, lockvars >>

purevars == << actorvars, camvars, codecvars, threadvars >>

vars == << netvars, gamevars, ghostvars, srvvars, pingvars, purevars >>

\* op: the operation; peer: the Conn it worked on; res: its result; out: how
\* many datagrams it put on the wire; data: the datagram it received
Event(op, peer, res, out, data) ==
    [op |-> op, peer |-> peer, res |-> res, out |-> out, data |-> data]

\* the datagrams a step puts on the wire
Emit(src, dst, out) == { [src |-> src, dst |-> dst, data |-> out[i]] : i \in 1..Len(out) }

\* local.seq of the packets in out
SeqsOf(out) == [i \in 1..Len(out) |-> DecodeHeader(out[i], Len(out[i])).val.local.seq]

\* the highest local.seq received so far once the bytes of data have come in:
\* data counts if it starts with a header of this protocol
Hear(old, data) ==
    LET h == DecodeHeader(data, Len(data)) IN
    IF h.ok /\ h.val.proto_id = PROTO_ID THEN more_recent(old, h.val.local.seq) ELSE old

\* what a call costs of the packets of a run: 1 if it got past the timeout test
Cost(before, after) == after.local.seq - before.local.seq

InitProgram ==
    /\ now = 0
    /\ conn = ConnNew(0)
    /\ client_buf = << >>
    /\ clients = << >>
    /\ server_buf = << >>
    /\ wire = {}
    /\ queue = << >>
    /\ game_clients = << >>
    /\ actors = {}
    /\ count = 0
    /\ pc = "sleep"
    /\ todo = {}
    /\ cur = "-"
    /\ dead = {}
    /\ npackets = 0
    /\ sent = [k \in {ServerAddr} \cup Peers |-> << >>]
    /\ heard = [k \in {ServerAddr} \cup Peers |-> 0]
    /\ closed = {}
    /\ ev = Event("init", "-", "-", 0, << >>)
    /\ games = << GameNew >>
    /\ srv_clients = << >>
    /\ cmds_chan = << >>
    /\ cmds = << >>
    /\ spc = "start"
    /\ sdead = {}
    /\ rm_cur = -1
    /\ join_handle = FALSE
    /\ send_handles = {}
    /\ recv_handles = {}
    /\ joining = {}
    /\ ntick = 0
    /\ nsent = 0
    /\ fate = << >>
    /\ sent_in = << >>
    /\ received = << >>
    /\ reg_at = << >>
    /\ issued = {}
    /\ bc = [clients |-> {}, ships |-> {}, dropped |-> {}]
    /\ new_game = GameNew
    /\ sev = [op |-> "init", id |-> -1, res |-> "-"]
    /\ client_alive = TRUE
    /\ close_signal = 0
    /\ wpc = "check"
    /\ npings = 0
    /\ after_drop = 0

\* no value is being encoded
CodecIdle ==
    /\ ctype = "Input"
    /\ cval = NoInput.val
    /\ cbytes = << >>
    /\ cdec = Failed
    /\ cpc = "value"

\* attach_sdl as it starts
QuitStart(kind) ==
    /\ qkind = kind
    /\ ipc = "loop"
    /\ quit_chan = [msgs |-> 0, tx |-> TRUE]
    /\ mpc = "try_recv"
    /\ qpeer = "up"
    /\ qinbox = 0
    /\ qrounds = 0
    /\ qpolls = 0
    /\ qsends = 0

\* the threads that send on the Conn of a client
ConnThreads == {"ping_worker", "handle", "clone"}

\* Client::new: a fresh Conn, its Mutex free
RaceStart ==
    /\ hconn = ConnNew(0)
    /\ hlock = "none"
    /\ hpc = [t \in ConnThreads |-> "idle"]
    /\ hreg = [t \in ConnThreads |-> 0]
    /\ hwire = << >>
    /\ hbumps = 0
    /\ hcalls = 0

\* the threads that take the mutexes of the Server
LockThreads == {"run", "join1", "join2"}

\* Server::new: both mutexes free
LockStart ==
    /\ lheld = [games |-> "none", clients |-> "none"]
    /\ lprog = [t \in LockThreads |-> << >>]
    /\ lclients = 0
    /\ lticks = 0

\* the threads of attach_sdl, of a client and of the Server as they start
ThreadsIdle ==
    /\ QuitStart("inproc")
    /\ RaceStart
    /\ LockStart

\* what a function of actors/lib.rs is said to have done to G
GameEvent(op, inputs, id) == [op |-> op, inputs |-> inputs, id |-> id]

Init ==
    /\ InitProgram
    /\ G = GameNew
    /\ gev = GameEvent("init", << >>, -1)
    /\ gissued = {}
    /\ cam = CameraNew(ShipNew.trans)
    /\ cev = CameraEvent("init", TheMap, Vec2Zero)
    /\ CodecIdle
    /\ ThreadsIdle

\* time passes
TickSteps == {5000, 5001}

Tick ==
    \E d \in TickSteps :
        /\ now + d <= MaxNow
        /\ now' = now + d
        /\ ev' = Event("tick", "-", "-", 0, << >>)
        /\ UNCHANGED << srvvars, pingvars, purevars, conn, client_buf, clients, server_buf, wire, gamevars,
                        npackets, sent, heard, closed >>

\* the network loses a datagram
Lose ==
    \E d \in wire :
        /\ wire' = wire \ {d}
        /\ ev' = Event("lose", "-", "-", 0, << >>)
        /\ UNCHANGED << srvvars, pingvars, purevars, now, conn, client_buf, clients, server_buf, gamevars,
                        npackets, sent, heard, closed >>

\* the third party sends a datagram to the server or to the client
Foreign ==
    \E dst \in {ServerAddr, ClientAddr} :
    \E data \in IF dst = ServerAddr THEN ForeignToServer ELSE ForeignToClient :
        /\ npackets < MaxPackets
        /\ npackets' = npackets + 1
        /\ wire' = wire \cup {[src |-> ForeignAddr, dst |-> dst, data |-> data]}
        /\ ev' = Event("foreign", "-", "-", 1, << >>)
        /\ UNCHANGED << srvvars, pingvars, purevars, now, conn, client_buf, clients, server_buf, gamevars,
                        sent, heard, closed >>

\* ClientHandle::send(body) through a handle of its own (a clone)
ClientSendWith(io) ==
    \E input \in Inputs, io_ok \in io :
    \E r \in { encode_and_send(conn, now, MAX_PACKET_SIZE, "Normal",
                               EncodeInput(input), io_ok) } :
        /\ npackets + Cost(conn, r.conn) <= MaxPackets
        /\ npackets' = npackets + Cost(conn, r.conn)
        /\ conn' = r.conn
        /\ wire' = wire \cup Emit(ClientAddr, ServerAddr, r.wire)
        /\ sent' = [sent EXCEPT ![ServerAddr] = @ \o SeqsOf(r.wire)]
        /\ ev' = Event("client_send", ServerAddr, r.res, Len(r.wire), << >>)
        /\ UNCHANGED << srvvars, pingvars, purevars, now, client_buf, clients, server_buf, gamevars, heard, closed >>

ClientSend == ClientSendWith(BOOLEAN)

\* one round of Client::ping_worker: send_ping under the Conn's lock
ClientPing ==
    \E io_ok \in BOOLEAN :
    \E r \in { send_ping(conn, now, io_ok) } :
        /\ npackets + Cost(conn, r.conn) <= MaxPackets
        /\ npackets' = npackets + Cost(conn, r.conn)
        /\ conn' = r.conn
        /\ wire' = wire \cup Emit(ClientAddr, ServerAddr, r.wire)
        /\ sent' = [sent EXCEPT ![ServerAddr] = @ \o SeqsOf(r.wire)]
        /\ ev' = Event("client_ping", ServerAddr, r.res, Len(r.wire), << >>)
        /\ UNCHANGED << srvvars, pingvars, purevars, now, client_buf, clients, server_buf, gamevars, heard, closed >>

\* one round of the loop of ClientHandle::recv::<T>: a datagram arrives; it
\* is decoded only if it comes from connected_to
ClientRecvOf(T) ==
    \E d \in wire, io_ok \in BOOLEAN :
    \E buf \in { RecvInto(client_buf, d.data) } :
    \E r \in { recv_and_decode_2(conn, T, buf, now, io_ok) } :
        /\ d.dst = ClientAddr
        /\ client_buf' = buf
        /\ IF d.src = connected_to
           THEN /\ npackets + Cost(conn, r.conn) <= MaxPackets
                /\ npackets' = npackets + Cost(conn, r.conn)
                /\ conn' = r.conn
                /\ wire' = (wire \ {d}) \cup Emit(ClientAddr, ServerAddr, r.wire)
                /\ sent' = [sent EXCEPT ![ServerAddr] = @ \o SeqsOf(r.wire)]
                /\ heard' = [heard EXCEPT ![ServerAddr] = Hear(@, d.data)]
                /\ ev' = Event("client_recv", d.src, r.ret, Len(r.wire), d.data)
           ELSE /\ wire' = wire \ {d}
                /\ ev' = Event("client_recv", d.src, "Skipped", 0, d.data)
                /\ UNCHANGED << conn, npackets, sent, heard >>
        /\ UNCHANGED << srvvars, pingvars, purevars, now, clients, server_buf, gamevars, closed >>

\* ClientHandle::recv::<actors::PlayerGame>, as recv_game calls it
ClientRecv == ClientRecvOf("PlayerGame")

\* a send that makes a Conn for an address it does not know, as recv does
NetSendInserting(addr, body, io_ok, op) ==
    IF addr \notin DOMAIN clients
    THEN /\ ev' = Event(op, addr, "NotConnected", 0, << >>)
         /\ clients' = [a \in DOMAIN clients \cup {addr} |->
                           IF a = addr THEN ConnNew(now) ELSE clients[a]]
         /\ UNCHANGED << wire, npackets, sent >>
    ELSE \E r \in { encode_and_send(clients[addr], now, MAX_PACKET_SIZE, "Normal",
                                    body, io_ok) } :
             /\ npackets + Cost(clients[addr], r.conn) <= MaxPackets
             /\ npackets' = npackets + Cost(clients[addr], r.conn)
             /\ clients' = IF r.res = "Closed"
                           THEN [a \in DOMAIN clients \ {addr} |-> clients[a]]
                           ELSE [clients EXCEPT ![addr] = r.conn]
             /\ wire' = wire \cup Emit(ServerAddr, addr, r.wire)
             /\ sent' = [sent EXCEPT ![addr] = @ \o SeqsOf(r.wire)]
             /\ ev' = Event(op, addr, r.res, Len(r.wire), << >>)

\* network::Server::send(addr, body): what it does to the table, the wire and
\* the counters, and its result
NetSend(addr, body, io_ok, op) ==
    IF addr \notin DOMAIN clients
    THEN /\ ev' = Event(op, addr, "NotConnected", 0, << >>)
         /\ UNCHANGED << clients, wire, npackets, sent >>
    ELSE \E r \in { encode_and_send(clients[addr], now, MAX_PACKET_SIZE, "Normal",
                                    body, io_ok) } :
             /\ npackets + Cost(clients[addr], r.conn) <= MaxPackets
             /\ npackets' = npackets + Cost(clients[addr], r.conn)
             /\ clients' = IF r.res = "Closed"
                           THEN [a \in DOMAIN clients \ {addr} |-> clients[a]]
                           ELSE [clients EXCEPT ![addr] = r.conn]
             /\ wire' = wire \cup Emit(ServerAddr, addr, r.wire)
             /\ sent' = [sent EXCEPT ![addr] = @ \o SeqsOf(r.wire)]
             /\ ev' = Event(op, addr, r.res, Len(r.wire), << >>)

\* a caller of network::Server::send that sends when and to whom it likes
ServerSendWith(io) ==
    \E addr \in Peers, game \in Games, io_ok \in io :
        /\ NetSend(addr, EncodePlayerGame(game), io_ok, "server_send")
        /\ UNCHANGED << srvvars, pingvars, purevars, now, conn, client_buf, server_buf, gamevars, heard, closed >>

ServerSend == ServerSendWith(BOOLEAN)

\* a table that takes a Conn only for an address it knows
entry_known(table, addr, c) ==
    [a \in DOMAIN table |-> IF a = addr THEN c ELSE table[a]]

\* Server::recv, clients.entry(addr): the Conn of addr, which is put in the
\* table if addr is new, as recv_and_decode_2 leaves it
entry_insert(table, addr, c) ==
    [a \in DOMAIN table \cup {addr} |-> IF a = addr THEN c ELSE table[a]]

\* Server::active_conn
active_conn(table, addr) == addr \in DOMAIN table

\* one round of the loop of network::Server::recv::<Input>: a datagram
\* arrives, a Conn is made for a new address, the datagram is decoded.
\* When recv returns, the next call starts with a zeroed buf.  With worker,
\* the caller is dogfights Server::worker, which queues what recv returns.
ServerRecvWith(worker) ==
    \E d \in wire, io_ok \in BOOLEAN :
    \E buf \in { RecvInto(server_buf, d.data) } :
    \E known \in { d.src \in DOMAIN clients } :
    \E old \in { IF known THEN clients[d.src] ELSE ConnNew(now) } :
    \E r \in { recv_and_decode_2(old, "Input", buf, now, io_ok) } :
        /\ d.dst = ServerAddr
        /\ npackets + Cost(old, r.conn) <= MaxPackets
        /\ npackets' = npackets + Cost(old, r.conn)
        /\ clients' = entry_insert(clients, d.src, r.conn)
        /\ server_buf' = IF r.ret = "None" THEN buf ELSE << >>
        /\ wire' = (wire \ {d}) \cup Emit(ServerAddr, d.src, r.wire)
        /\ sent' = [sent EXCEPT ![d.src] =
                       (IF known THEN @ ELSE << >>) \o SeqsOf(r.wire)]
        /\ heard' = [heard EXCEPT ![d.src] = Hear(IF known THEN @ ELSE 0, d.data)]
        /\ ev' = Event("server_recv", d.src, r.ret, Len(r.wire), d.data)
        /\ queue' = IF worker /\ r.ret = "Some"
                    THEN Append(queue, [from |-> d.src, input |-> r.body])
                    ELSE queue
        /\ UNCHANGED << srvvars, pingvars, purevars, now, conn, client_buf, game_clients, actors, count, pc,
                        todo, cur, dead, closed >>

ServerRecv == ServerRecvWith(FALSE)

Next ==
    \/ Tick
    \/ Lose
    \/ Foreign
    \/ ClientSend
    \/ ClientPing
    \/ ClientRecv
    \/ ServerSend
    \/ ServerRecv

\* the transport: a client, a server whose caller sends at will, a third party
Spec == Init /\ [][Next]_vars

\* ------------------------------------------------------------------------
\* An exchange of Normal datagrams in which no send fails and nothing is lost

NextExchange ==
    \/ Tick
    \/ ClientSendWith({TRUE})
    \/ ServerSendWith({TRUE})
    \/ ClientRecv
    \/ ServerRecv

SpecExchange == Init /\ [][NextExchange]_vars

\* ------------------------------------------------------------------------
\* Conn::tickle called on the client's Conn with any header

TickleCall ==
    \E s \in 0..MaxHeaderSeq, a \in 0..MaxHeaderSeq :
        /\ conn' = tickle(conn, [seq |-> s, ack |-> a], now)
        /\ ev' = Event("tickle", ServerAddr, "-", 0, RawHeader(PROTO_ID, s, a, 2))
        /\ UNCHANGED << srvvars, pingvars, purevars, now, client_buf, clients, server_buf, wire, gamevars,
                        npackets, sent, heard, closed >>

NextTickle ==
    \/ Tick
    \/ TickleCall

SpecTickle == Init /\ [][NextTickle]_vars

\* ------------------------------------------------------------------------
\* The game server of dogfights/main.rs: Server::worker in its thread,
\* Server::run in the main thread, both on clones of one network::Server

\* the ids of a set of actors, in increasing order
RECURSIVE IdsOf(_)
IdsOf(S) ==
    IF S = {} THEN << >>
    ELSE LET m == CHOOSE x \in S : \A y \in S : x <= y
         IN  << m >> \o IdsOf(S \ {m})

\* Server::prepare_inputs: an address not yet in clients gets a ship
\* (Game::add_ship, Actors::add: the id is count, then count += 1)
RECURSIVE prepare_inputs(_, _)
prepare_inputs(msgs, st) ==
    IF msgs = << >> THEN st
    ELSE prepare_inputs(Tail(msgs),
            IF Head(msgs).from \in DOMAIN st.game_clients THEN st
            ELSE [game_clients |->
                      [a \in DOMAIN st.game_clients \cup {Head(msgs).from} |->
                          IF a = Head(msgs).from THEN st.count
                          ELSE st.game_clients[a]],
                  actors |-> st.actors \cup {st.count},
                  count |-> st.count + 1])

\* Server::worker: one round of server.recv(); a body goes to the queue
Worker == ServerRecvWith(TRUE)

\* remote_client's worker: one round of worker_handle.recv() for the
\* PlayerGame of dogfights/main.rs
MainClientRecv == ClientRecvOf("MainPlayerGame")

\* Server::run from the top of the loop to the call of broadcast_game:
\* drain, prepare_inputs, advance (which keeps every ship)
RunTick ==
    \E st \in { prepare_inputs(queue, [game_clients |-> game_clients,
                                       actors |-> actors, count |-> count]) } :
        /\ pc = "sleep"
        /\ queue' = << >>
        /\ game_clients' = st.game_clients
        /\ actors' = st.actors
        /\ count' = st.count
        /\ pc' = "broadcast"
        /\ todo' = DOMAIN st.game_clients
        /\ cur' = "-"
        /\ dead' = {}
        /\ closed' = {}
        /\ ev' = Event("run_tick", "-", "-", 0, << >>)
        /\ UNCHANGED << srvvars, pingvars, purevars, netvars, npackets, sent, heard >>

\* broadcast_game, the for loop: server.send(addr, &remote_game)
BroadcastSend ==
    \E addr \in todo, io_ok \in BOOLEAN :
        /\ pc = "broadcast"
        /\ cur = "-"
        /\ NetSend(addr, EncodeMainPlayerGame([player |-> game_clients[addr],
                                               ids |-> IdsOf(actors),
                                               count |-> count]),
                   io_ok, "broadcast_send")
        /\ cur' = addr
        /\ todo' = todo \ {addr}
        /\ closed' = IF ev'.res = "Closed"
                     THEN closed \cup {[addr |-> addr, ship |-> game_clients[addr]]}
                     ELSE closed
        /\ UNCHANGED << srvvars, pingvars, purevars, now, conn, client_buf, server_buf, queue, game_clients,
                        actors, count, pc, dead, heard >>

\* broadcast_game, the for loop: if !server.active_conn(addr) { dead.push }
BroadcastCheck ==
    /\ pc = "broadcast"
    /\ cur # "-"
    /\ dead' = IF cur \notin DOMAIN clients THEN dead \cup {cur} ELSE dead
    /\ cur' = "-"
    /\ ev' = Event("broadcast_check", cur,
                   IF cur \in DOMAIN clients THEN "active" ELSE "dead", 0, << >>)
    /\ UNCHANGED << srvvars, pingvars, purevars, netvars, queue, game_clients, actors, count, pc, todo,
                    npackets, sent, heard, closed >>

\* broadcast_game after the for loop: the dead leave clients and the game;
\* then run sleeps until the next tick
BroadcastReap ==
    /\ pc = "broadcast"
    /\ cur = "-"
    /\ todo = {}
    /\ game_clients' = [a \in DOMAIN game_clients \ dead |-> game_clients[a]]
    /\ actors' = actors \ { game_clients[a] : a \in dead }
    /\ pc' = "sleep"
    /\ ev' = Event("broadcast_reap", "-", "-", 0, << >>)
    /\ UNCHANGED << srvvars, pingvars, purevars, netvars, queue, count, todo, cur, dead, npackets, sent,
                    heard, closed >>

NextGame ==
    \/ Tick
    \/ Lose
    \/ ClientSend
    \/ ClientPing
    \/ MainClientRecv
    \/ Worker
    \/ RunTick
    \/ BroadcastSend
    \/ BroadcastCheck
    \/ BroadcastReap

SpecGame == Init /\ [][NextGame]_vars

\* ------------------------------------------------------------------------
\* The in-process server of server/lib.rs: Server::run in its thread, the
\* players' joins, sends and receives in theirs

\* the Inputs the players send
ServerInputs ==
    { [quit |-> FALSE, accel |-> TRUE, firing |-> FALSE, rotating |-> "Still",
       paused |-> FALSE],
      [quit |-> FALSE, accel |-> FALSE, firing |-> TRUE, rotating |-> "Left",
       paused |-> FALSE] }

\* the Senders of the channel of inputs that are alive: Server.cmds_tx, which
\* lives as long as the Server that runs, JoinHandle.cmds_tx and the sender
\* of every ServerClientSend
Senders == 1 + (IF join_handle THEN 1 ELSE 0) + Cardinality(send_handles)

\* a try_recv that reports Empty with one message left
try_recv_early(chan, senders) ==
    IF Len(chan) > 1 THEN [res |-> "Ok", val |-> << Head(chan) >>, chan |-> Tail(chan)]
    ELSE IF senders = 0 THEN [res |-> "Disconnected", val |-> << >>, chan |-> chan]
    ELSE [res |-> "Empty", val |-> << >>, chan |-> chan]

\* Receiver::try_recv as prepare_inputs matches on it
try_recv(chan, senders) ==
    IF chan # << >> THEN [res |-> "Ok", val |-> << Head(chan) >>, chan |-> Tail(chan)]
    ELSE IF senders = 0 THEN [res |-> "Disconnected", val |-> << >>, chan |-> chan]
    ELSE [res |-> "Empty", val |-> << >>, chan |-> chan]

\* a send that jumps the queue
send_front(chan, game) == << game >> \o chan

\* Sender::send on the channel of a subscriber whose receive handle is alive
send(chan, game) == Append(chan, game)

\* a channel with room for one Game
CanSendBounded(chan) == Len(chan) < 1

\* the channel join makes with channel() has no bound: send never waits
CanSend(chan) == TRUE

\* a ring that never lets a Game go
ring_push_all(ring, game) == << game >> \o ring

\* run: pop_back when the ring is full, then push_front
ring_push(ring, game) ==
    << game >> \o (IF Len(ring) >= SERVER_GAMES THEN SubSeq(ring, 1, Len(ring) - 1)
                   ELSE ring)

\* the ids of the actors of a Game
Keys(game) == DOMAIN game.actors.actors

ServerEvent(op, id, res) == [op |-> op, id |-> id, res |-> res]

\* Server::join_handle
JoinHandleNew ==
    /\ ~join_handle
    /\ join_handle' = TRUE
    /\ sev' = ServerEvent("join_handle", -1, "-")
    /\ UNCHANGED << netvars, gamevars, ghostvars, pingvars, purevars, games, srv_clients,
                    cmds_chan, cmds, spc, sdead, rm_cur, send_handles, recv_handles,
                    joining, ntick, nsent, fate, sent_in, received, reg_at, issued,
                    bc, new_game >>

\* the JoinHandle is dropped (no join is running on it)
DropJoinHandle ==
    /\ join_handle
    /\ joining = {}
    /\ join_handle' = FALSE
    /\ sev' = ServerEvent("drop_join_handle", -1, "-")
    /\ UNCHANGED << netvars, gamevars, ghostvars, pingvars, purevars, games, srv_clients,
                    cmds_chan, cmds, spc, sdead, rm_cur, send_handles, recv_handles,
                    joining, ntick, nsent, fate, sent_in, received, reg_at, issued,
                    bc, new_game >>

\* JoinHandle::join, the first block: add_ship to the front Game under the
\* lock of the ring
JoinAddShipWith(max) ==
    \E r \in { add_ship(games[1]) } :
        /\ join_handle
        /\ Cardinality(DOMAIN reg_at \cup joining) < max
        /\ games' = [games EXCEPT ![1] = r.game]
        /\ joining' = joining \cup {r.id}
        /\ issued' = issued \cup {r.id}
        /\ sev' = ServerEvent("add_ship", r.id, "-")
        /\ UNCHANGED << netvars, gamevars, ghostvars, pingvars, purevars, srv_clients,
                        cmds_chan, cmds, spc, sdead, rm_cur, join_handle,
                        send_handles, recv_handles, ntick, nsent, fate, sent_in,
                        received, reg_at, bc, new_game >>

JoinAddShip == JoinAddShipWith(MaxJoins)

\* JoinHandle::join, the second block and the return: the sender is
\* registered under the lock of clients, the caller gets its two handles
JoinRegister ==
    \E id \in joining :
        /\ srv_clients' = [k \in DOMAIN srv_clients \cup {id} |->
                               IF k = id THEN << >> ELSE srv_clients[k]]
        /\ joining' = joining \ {id}
        /\ send_handles' = send_handles \cup {id}
        /\ recv_handles' = recv_handles \cup {id}
        /\ received' = [k \in DOMAIN received \cup {id} |->
                            IF k = id THEN << >> ELSE received[k]]
        /\ reg_at' = [k \in DOMAIN reg_at \cup {id} |->
                          IF k = id THEN games[1].time ELSE reg_at[k]]
        /\ sev' = ServerEvent("join", id, "-")
        /\ UNCHANGED << netvars, gamevars, ghostvars, pingvars, purevars, games, cmds_chan,
                        cmds, spc, sdead, rm_cur, join_handle, ntick, nsent, fate,
                        sent_in, issued, bc, new_game >>

\* ServerClientSend::send_input
SendInputWith(inputs, max) ==
    \E id \in send_handles, input \in inputs :
        /\ nsent < max
        /\ nsent' = nsent + 1
        /\ cmds_chan' = Append(cmds_chan, [player |-> id, input |-> input,
                                           n |-> nsent + 1])
        /\ fate' = Append(fate, 0)
        /\ sent_in' = Append(sent_in, [tick |-> ntick, draining |-> spc = "drain"])
        /\ sev' = ServerEvent("send_input", id, "true")
        /\ UNCHANGED << netvars, gamevars, ghostvars, pingvars, purevars, games, srv_clients,
                        cmds, spc, sdead, rm_cur, join_handle, send_handles,
                        recv_handles, joining, ntick, received, reg_at, issued, bc,
                        new_game >>

SendInput == SendInputWith(ServerInputs, MaxInputs)

\* a player drops its ServerClientSend
DropSend ==
    \E id \in send_handles :
        /\ send_handles' = send_handles \ {id}
        /\ sev' = ServerEvent("drop_send", id, "-")
        /\ UNCHANGED << netvars, gamevars, ghostvars, pingvars, purevars, games, srv_clients,
                        cmds_chan, cmds, spc, sdead, rm_cur, join_handle,
                        recv_handles, joining, ntick, nsent, fate, sent_in, received,
                        reg_at, issued, bc, new_game >>

\* a player drops its ServerClientRecv: the Games still in its channel go
DropRecv ==
    \E id \in recv_handles :
        /\ recv_handles' = recv_handles \ {id}
        /\ srv_clients' = [srv_clients EXCEPT ![id] = << >>]
        /\ sev' = ServerEvent("drop_recv", id, "-")
        /\ UNCHANGED << netvars, gamevars, ghostvars, pingvars, purevars, games, cmds_chan,
                        cmds, spc, sdead, rm_cur, join_handle, send_handles, joining,
                        ntick, nsent, fate, sent_in, received, reg_at, issued, bc,
                        new_game >>

\* ServerClientRecv::recv_game when a Game is there (it waits when none is)
RecvGame ==
    \E id \in recv_handles :
        /\ srv_clients[id] # << >>
        /\ received' = [received EXCEPT ![id] = Append(@, Head(srv_clients[id]).time)]
        /\ srv_clients' = [srv_clients EXCEPT ![id] = Tail(@)]
        /\ sev' = ServerEvent("recv_game", id, "Some")
        /\ UNCHANGED << netvars, gamevars, ghostvars, pingvars, purevars, games, cmds_chan,
                        cmds, spc, sdead, rm_cur, join_handle, send_handles,
                        recv_handles, joining, ntick, nsent, fate, sent_in, reg_at,
                        issued, bc, new_game >>

\* Server::run: the top of the loop, when run is called and after each delay
LoopTopWith(max) ==
    /\ spc \in {"start", "delay"}
    /\ ntick < max
    /\ spc' = "drain"
    /\ ntick' = ntick + 1
    /\ cmds' = << >>
    /\ sev' = ServerEvent("loop", -1, "-")
    /\ UNCHANGED << netvars, gamevars, ghostvars, pingvars, purevars, games, srv_clients,
                    cmds_chan, sdead, rm_cur, join_handle, send_handles,
                    recv_handles, joining, nsent, fate, sent_in, received, reg_at,
                    issued, bc, new_game >>

LoopTop == LoopTopWith(MaxTicks)

\* Server::prepare_inputs: one round of its loop.  An input goes into the
\* batch; Empty ends the drain; Disconnected ends run
PrepareInputs ==
    \E r \in { try_recv(cmds_chan, Senders) } :
        /\ spc = "drain"
        /\ cmds_chan' = r.chan
        /\ cmds' = cmds \o r.val
        /\ fate' = IF r.res = "Ok" THEN [fate EXCEPT ![r.val[1].n] = ntick] ELSE fate
        /\ spc' = CASE r.res = "Ok" -> "drain"
                     [] r.res = "Empty" -> "advance"
                     [] r.res = "Disconnected" -> "exit"
        /\ sev' = ServerEvent("try_recv", -1, r.res)
        /\ UNCHANGED << netvars, gamevars, ghostvars, pingvars, purevars, games, srv_clients,
                        sdead, rm_cur, join_handle, send_handles, recv_handles,
                        joining, ntick, nsent, sent_in, received, reg_at, issued, bc,
                        new_game >>

\* Server::run: under the lock of the ring, advance the front Game with the
\* batch and push the new Game
Advance ==
    /\ spc = "advance"
    /\ \E order \in Orders(Keys(games[1])) :
       \E g \in { GameAdvance(games[1], cmds, order) } :
        /\ games' = ring_push(games, g)
        /\ new_game' = g
        /\ issued' = issued \cup Keys(g)
        /\ spc' = "broadcast"
        /\ sev' = ServerEvent("advance", -1, "-")
        /\ UNCHANGED << netvars, gamevars, ghostvars, pingvars, purevars, srv_clients,
                        cmds_chan, cmds, sdead, rm_cur, join_handle, send_handles,
                        recv_handles, joining, ntick, nsent, fate, sent_in, received,
                        reg_at, bc >>

\* Server::broadcast, the loop under the lock of clients: the Game goes to
\* every sender; those whose receiver is gone are dead
Broadcast ==
    /\ spc = "broadcast"
    /\ \A id \in DOMAIN srv_clients \cap recv_handles : CanSend(srv_clients[id])
    /\ srv_clients' = [id \in DOMAIN srv_clients |->
                           IF id \in recv_handles THEN send(srv_clients[id], new_game)
                           ELSE srv_clients[id]]
    /\ sdead' = DOMAIN srv_clients \ recv_handles
    /\ bc' = [clients |-> DOMAIN srv_clients, ships |-> Keys(games[1]),
              dropped |-> DOMAIN srv_clients \ recv_handles]
    /\ spc' = IF DOMAIN srv_clients \subseteq recv_handles THEN "delay" ELSE "remove"
    /\ sev' = ServerEvent("broadcast", -1, "-")
    /\ UNCHANGED << netvars, gamevars, ghostvars, pingvars, purevars, games, cmds_chan, cmds,
                    rm_cur, join_handle, send_handles, recv_handles, joining, ntick,
                    nsent, fate, sent_in, received, reg_at, issued, new_game >>

\* Server::remove_player, the first block: the sender leaves clients
RemoveClient ==
    \E id \in sdead :
        /\ spc = "remove"
        /\ rm_cur = -1
        /\ srv_clients' = [k \in DOMAIN srv_clients \ {id} |-> srv_clients[k]]
        /\ rm_cur' = id
        /\ sev' = ServerEvent("remove_client", id, "-")
        /\ UNCHANGED << netvars, gamevars, ghostvars, pingvars, purevars, games, cmds_chan,
                        cmds, spc, sdead, join_handle, send_handles, recv_handles,
                        joining, ntick, nsent, fate, sent_in, received, reg_at,
                        issued, bc, new_game >>

\* Server::remove_player, the second block: the ship leaves the front Game;
\* after the last of the dead, run goes to its delay
RemoveShip ==
    /\ spc = "remove"
    /\ rm_cur # -1
    /\ games' = [games EXCEPT ![1] = [@ EXCEPT !.actors = remove(@, rm_cur)]]
    /\ sdead' = sdead \ {rm_cur}
    /\ rm_cur' = -1
    /\ spc' = IF sdead \ {rm_cur} = {} THEN "delay" ELSE "remove"
    /\ sev' = ServerEvent("remove_ship", rm_cur, "-")
    /\ UNCHANGED << netvars, gamevars, ghostvars, pingvars, purevars, srv_clients, cmds_chan,
                    cmds, join_handle, send_handles, recv_handles, joining, ntick,
                    nsent, fate, sent_in, received, reg_at, issued, bc, new_game >>

\* the inputs: one player that joins, sends and drops its handles while run
\* drains, advances and broadcasts
NextInputs ==
    \/ JoinHandleNew
    \/ DropJoinHandle
    \/ JoinAddShipWith(1)
    \/ JoinRegister
    \/ SendInput
    \/ DropSend
    \/ LoopTop
    \/ PrepareInputs
    \/ Advance
    \/ Broadcast

SpecInputs == Init /\ [][NextInputs]_vars

\* the subscribers: players that join, fire, receive and drop their receive
\* handles while run ticks, broadcasts and removes the dead
NextSubs ==
    \/ JoinHandleNew
    \/ JoinAddShip
    \/ JoinRegister
    \/ SendInputWith({ i \in ServerInputs : i.firing }, 1)
    \/ RecvGame
    \/ DropRecv
    \/ LoopTop
    \/ PrepareInputs
    \/ Advance
    \/ Broadcast
    \/ RemoveClient
    \/ RemoveShip

SpecSubs == Init /\ [][NextSubs]_vars

\* the ring: run ticks until the ring is full and beyond, while a player
\* joins and is removed
NextRing ==
    \/ JoinHandleNew
    \/ JoinAddShipWith(1)
    \/ JoinRegister
    \/ DropRecv
    \/ LoopTopWith(MaxRingTicks)
    \/ PrepareInputs
    \/ Advance
    \/ Broadcast
    \/ RemoveClient
    \/ RemoveShip

SpecRing == Init /\ [][NextRing]_vars

\* the players that fire, leave and go on sending: they join, send firing
\* inputs and drop their receive handles while run ticks, broadcasts and
\* removes the dead
NextStale ==
    \/ JoinHandleNew
    \/ JoinAddShip
    \/ JoinRegister
    \/ SendInputWith({ i \in ServerInputs : i.firing }, MaxStaleInputs)
    \/ DropRecv
    \/ LoopTopWith(MaxStaleTicks)
    \/ PrepareInputs
    \/ Advance
    \/ Broadcast
    \/ RemoveClient
    \/ RemoveShip

SpecStale == Init /\ [][NextStale]_vars

\* a subscriber may never call recv_game: run is a thread that goes on
\* whenever it can take a step
NextSlow ==
    \/ JoinHandleNew
    \/ JoinAddShip
    \/ JoinRegister
    \/ RecvGame
    \/ LoopTop
    \/ PrepareInputs
    \/ Advance
    \/ Broadcast

SpecSlow ==
    Init /\ [][NextSlow]_vars /\ WF_vars(LoopTop \/ PrepareInputs \/ Advance \/ Broadcast)

\* ------------------------------------------------------------------------
\* The heartbeat: the thread of Client::ping_worker and the drop of the Client

\* a drop that sends nothing to the worker
drop_silently(signal) == signal

\* Drop for Client: tx.send(()) to the worker
drop_signal(signal) == signal + 1

\* ping_worker: close_signal.try_recv().is_ok(), then break or go on to the
\* ping.  With no signal there, Empty while the Client lives and
\* Disconnected once it is dropped, the worker goes on
WorkerCheck ==
    /\ wpc = "check"
    /\ close_signal = 0 => npings < MaxPings
    /\ wpc' = IF close_signal > 0 THEN "exited" ELSE "ping"
    /\ close_signal' = IF close_signal > 0 THEN close_signal - 1 ELSE close_signal
    /\ ev' = Event("worker_check", "-", "-", 0, << >>)
    /\ UNCHANGED << srvvars, purevars, now, conn, client_buf, clients, server_buf, wire,
                    gamevars, npackets, sent, heard, closed, client_alive, npings,
                    after_drop >>

\* ping_worker: send_ping under the lock of the Conn; an error is logged
WorkerPing ==
    \E io_ok \in BOOLEAN :
    \E r \in { send_ping(conn, now, io_ok) } :
        /\ wpc = "ping"
        /\ conn' = r.conn
        /\ wire' = wire \cup Emit(ClientAddr, ServerAddr, r.wire)
        /\ sent' = [sent EXCEPT ![ServerAddr] = @ \o SeqsOf(r.wire)]
        /\ npings' = npings + 1
        /\ after_drop' = IF client_alive THEN after_drop ELSE after_drop + 1
        /\ wpc' = "delay"
        /\ ev' = Event("worker_ping", ServerAddr, r.res, Len(r.wire), << >>)
        /\ UNCHANGED << srvvars, purevars, now, client_buf, clients, server_buf, gamevars,
                        npackets, heard, closed, client_alive, close_signal >>

\* ping_worker: sdl2::timer::delay(PING_INTERVAL) is over
WorkerDelay ==
    /\ wpc = "delay"
    /\ wpc' = "check"
    /\ ev' = Event("worker_delay", "-", "-", 0, << >>)
    /\ UNCHANGED << srvvars, purevars, netvars, gamevars, npackets, sent, heard, closed,
                    client_alive, close_signal, npings, after_drop >>

\* the Client is dropped
ClientDrop ==
    /\ client_alive
    /\ client_alive' = FALSE
    /\ close_signal' = drop_signal(close_signal)
    /\ ev' = Event("client_drop", "-", "-", 0, << >>)
    /\ UNCHANGED << srvvars, purevars, netvars, gamevars, npackets, sent, heard, closed,
                    wpc, npings, after_drop >>

NextPing ==
    \/ Tick
    \/ Lose
    \/ WorkerCheck
    \/ WorkerPing
    \/ WorkerDelay
    \/ ClientDrop

\* the worker is a thread: it takes its next step whenever it can
SpecPing ==
    Init /\ [][NextPing]_vars /\ WF_vars(WorkerCheck \/ WorkerPing \/ WorkerDelay)

\* ------------------------------------------------------------------------
\* The remote client's drivers on the UDP handle (server/lib.rs, ClientSend
\* and ClientRecv for network::ClientHandle)

\* a send_input that gives up on every error
send_input_giving_up(res) ==
    CASE res = "Ok" -> "true"
      [] OTHER -> "false"

\* send_input: what it makes of the result of one self.send(&input)
send_input_on(res) ==
    CASE res = "Closed" -> "false"
      [] res = "Ok" -> "true"
      [] OTHER -> "again"

\* recv_game: what it makes of the result of one self.recv()
recv_game_on(res) ==
    CASE res = "Closed" -> "None"
      [] res = "Some" -> "Some"
      [] OTHER -> "again"

\* send_input: one round of its loop
UdpSendInput ==
    \E input \in Inputs, io_ok \in BOOLEAN :
    \E r \in { encode_and_send(conn, now, MAX_PACKET_SIZE, "Normal",
                               EncodeInput(input), io_ok) } :
        /\ npackets + Cost(conn, r.conn) <= MaxPackets
        /\ npackets' = npackets + Cost(conn, r.conn)
        /\ conn' = r.conn
        /\ wire' = wire \cup Emit(ClientAddr, ServerAddr, r.wire)
        /\ sent' = [sent EXCEPT ![ServerAddr] = @ \o SeqsOf(r.wire)]
        /\ ev' = Event("send_input", ServerAddr, send_input_on(r.res), Len(r.wire),
                       << >>)
        /\ UNCHANGED << srvvars, pingvars, purevars, now, client_buf, clients, server_buf,
                        gamevars, heard, closed >>

\* recv_game: one round of its loop in which nothing comes within the 5 ms
\* of set_timeout: recv_from fails with TimedOut, which try! hands on
UdpRecvGameTimedOut ==
    /\ ev' = Event("recv_game", ServerAddr, recv_game_on("TimedOut"), 0, << >>)
    /\ UNCHANGED << srvvars, pingvars, purevars, netvars, gamevars, npackets, sent, heard,
                    closed >>

\* a session of a remote client: its two drivers, the server that receives
\* and sends, and the clock
NextSession ==
    \/ Tick
    \/ UdpSendInput
    \/ UdpRecvGameTimedOut
    \/ ClientRecv
    \/ ServerSend
    \/ ServerRecv

SpecSession == Init /\ [][NextSession]_vars

\* ------------------------------------------------------------------------
\* The functions of actors/lib.rs applied to a Game: Game::add_ship,
\* Actors::add of a Shooter, Actors::remove and Game::advance, from the empty
\* Game or from a Game whose one ship has flown to the right edge of the map.

\* a ship that has flown to one pixel from the right edge, or onto it
ShipAtEdge == { ShipAt(MAP_W - 1, SCREEN_HEIGHT \div 2), ShipAt(MAP_W, SCREEN_HEIGHT \div 2) }

InitGames ==
    {GameNew} \cup { [GameNew EXCEPT !.actors = add(ActorsNew, s).as] : s \in ShipAtEdge }

\* the Inputs of a player who flies and shoots
GameInputs ==
    { [quit |-> FALSE, accel |-> a, firing |-> ~a, rotating |-> "Still", paused |-> FALSE] :
          a \in BOOLEAN }

KeysOf(game) == DOMAIN game.actors.actors

OfKind(game, kind) == { k \in KeysOf(game) : game.actors.actors[k].kind = kind }

\* the batches of a tick: at most MaxBatch PlayerInputs with an Input of
\* inputs, each for a ship of its own
BatchesOf(game, inputs) ==
    { b \in UNION { [1..n -> [player : OfKind(game, "Ship"), input : inputs]] :
                        n \in 0..MaxBatch } :
          \A i, j \in 1..Len(b) : i # j => b[i].player # b[j].player }

Batches(game) == BatchesOf(game, GameInputs)

InitActors ==
    /\ InitProgram
    /\ G \in InitGames
    /\ gev = GameEvent("init", << >>, -1)
    /\ gissued = KeysOf(G)
    /\ cam = CameraNew(ShipNew.trans)
    /\ cev = CameraEvent("init", TheMap, Vec2Zero)
    /\ CodecIdle
    /\ ThreadsIdle

\* Game::add_ship
GAddShip ==
    /\ Cardinality(OfKind(G, "Ship")) < MaxShips
    /\ G.actors.count < MaxCount
    /\ G' = add_ship(G).game
    /\ gev' = GameEvent("add_ship", << >>, add_ship(G).id)
    /\ gissued' = gissued \cup {add_ship(G).id}
    /\ UNCHANGED << netvars, gamevars, ghostvars, srvvars, pingvars, camvars, codecvars, threadvars >>

\* actors.add(Actor::Shooter(..)): a Game gets its shooter
GAddShooter ==
    /\ OfKind(G, "Shooter") = {}
    /\ G.actors.count < MaxCount
    /\ G' = [G EXCEPT !.actors = add(G.actors, ShooterNew).as]
    /\ gev' = GameEvent("add", << >>, add(G.actors, ShooterNew).id)
    /\ gissued' = gissued \cup {add(G.actors, ShooterNew).id}
    /\ UNCHANGED << netvars, gamevars, ghostvars, srvvars, pingvars, camvars, codecvars, threadvars >>

\* Actors::remove, of a ship as Server::remove_player calls it
GRemove ==
    \E actor_id \in OfKind(G, "Ship") :
        /\ G' = [G EXCEPT !.actors = remove(G.actors, actor_id)]
        /\ gev' = GameEvent("remove", << >>, actor_id)
        /\ UNCHANGED << gissued, netvars, gamevars, ghostvars, srvvars, pingvars, camvars, codecvars, threadvars >>

\* Game::advance, for every batch of Inputs of inputs and every order of the
\* HashMap
GAdvanceWith(inputs) ==
    /\ G.time < MaxGameTicks
    /\ Cardinality(KeysOf(G)) <= MaxActors
    /\ \E batch \in BatchesOf(G, inputs), order \in Orders(KeysOf(G)) :
           /\ G' = GameAdvance(G, batch, order)
           /\ gev' = GameEvent("advance", batch, -1)
           /\ gissued' = gissued \cup KeysOf(GameAdvance(G, batch, order))
    /\ UNCHANGED << netvars, gamevars, ghostvars, srvvars, pingvars, camvars, codecvars, threadvars >>

GAdvance == GAdvanceWith(GameInputs)

NextActors ==
    \/ GAddShip
    \/ GAddShooter
    \/ GRemove
    \/ GAdvance

SpecActors == InitActors /\ [][NextActors]_vars

\* ------------------------------------------------------------------------
\* Camera::advance applied to cameras (actors/lib.rs 43-68): the map is the
\* screen or the map of init_spec, the camera starts anywhere, the ship is
\* inside the map and has any velocity.

Maps == { [w |-> SCREEN_WIDTH, h |-> SCREEN_HEIGHT], TheMap }

CamXs == { -MaxCam, -1, 0, SCREEN_WIDTH \div 2, MAP_W - SCREEN_WIDTH, MAP_W, MaxCam }

CamYs == { -MaxCam, 0, MAP_H - SCREEN_HEIGHT, MaxCam }

ShipVels == { [x |-> vx, y |-> vy] : vx, vy \in { -MaxVel, 0, MaxVel } }

\* where a ship can be on the map
ShipPositions(map) ==
    { [x |-> x, y |-> y] : x \in { 0, SCREEN_WIDTH \div 2, H_PAD, map.w - H_PAD, map.w },
                           y \in { 0, SCREEN_HEIGHT \div 2, map.h } }

InitCamera ==
    /\ InitProgram
    /\ G = GameNew
    /\ gev = GameEvent("init", << >>, -1)
    /\ gissued = {}
    /\ cam \in { [pos |-> [x |-> x, y |-> y], vel |-> Vec2Zero] : x \in CamXs, y \in CamYs }
    /\ cev = CameraEvent("init", TheMap, Vec2Zero)
    /\ CodecIdle
    /\ ThreadsIdle

CamAdvance ==
    \E map \in Maps, ship_vel \in ShipVels :
    \E ship_pos \in ShipPositions(map) :
        /\ cam' = CameraAdvance(map, cam, ship_vel, ship_pos)
        /\ cev' = CameraEvent("advance", map, ship_pos)
        /\ UNCHANGED << netvars, gamevars, ghostvars, srvvars, pingvars, actorvars, codecvars, threadvars >>

NextCamera == CamAdvance

SpecCamera == InitCamera /\ [][NextCamera]_vars

\* ------------------------------------------------------------------------
\* The send path with bodies of every size: a client that sends its inputs
\* and a server that sends small and crowded games to whom it likes.

ServerSendLarge ==
    \E addr \in Peers, game \in LargeGames, io_ok \in BOOLEAN :
        /\ NetSend(addr, EncodePlayerGame(game), io_ok, "server_send")
        /\ UNCHANGED << srvvars, pingvars, purevars, now, conn, client_buf, server_buf,
                        gamevars, heard, closed >>

NextSend ==
    \/ Tick
    \/ ClientSend
    \/ ServerRecv
    \/ ServerSend
    \/ ServerSendLarge

SpecSend == Init /\ [][NextSend]_vars

\* ------------------------------------------------------------------------
\* bincode::encode and bincode::decode applied to the values that go over
\* the wire: Input, Actor, Actors, Game and PlayerGame.

\* f32s: 0.0, 400.0 and 100000.0
F32s == { << 0, 0, 0, 0 >>, << 67, 200, 0, 0 >>, << 71, 195, 80, 0 >> }

F32Zero == << 0, 0, 0, 0 >>

InputValues ==
    [quit : BOOLEAN, accel : BOOLEAN, firing : BOOLEAN,
     rotating : {"Still", "Left", "Right"}, paused : BOOLEAN]

ShipValues ==
    { [kind |-> "Ship", spec |-> 1,
       trans |-> [pos |-> [x |-> x, y |-> F32Zero], rotation |-> F32Zero],
       vel |-> [x |-> F32Zero, y |-> x], not_firing_for |-> nff, accel |-> accel,
       rotating |-> rotating,
       camera |-> [pos |-> [x |-> F32Zero, y |-> F32Zero],
                   vel |-> [x |-> x, y |-> F32Zero]]] :
          x \in F32s, nff \in F32s, accel \in BOOLEAN,
          rotating \in {"Still", "Left", "Right"} }

ShooterValues ==
    { [kind |-> "Shooter", spec |-> 2, time_since_fire |-> t] : t \in F32s }

BulletValues ==
    { [kind |-> "Bullet", spec |-> 0,
       trans |-> [pos |-> [x |-> x, y |-> F32Zero], rotation |-> F32Zero],
       age |-> age] : x \in F32s, age \in F32s }

ActorValues == ShipValues \cup ShooterValues \cup BulletValues

\* one actor of each kind for the registries
SomeActors ==
    { CHOOSE a \in ShipValues : a.accel /\ a.rotating = "Left" /\ a.vel.y # F32Zero,
      CHOOSE a \in ShooterValues : a.time_since_fire # F32Zero,
      CHOOSE a \in BulletValues : a.age # F32Zero }

\* registries with any ids up to MaxActorId and any counter up to MaxCounter
ActorsValues ==
    UNION { { [actors |-> f, count |-> c] : f \in [ids -> SomeActors],
                                            c \in {0, Cardinality(ids), MaxCounter} } :
                ids \in { I \in SUBSET {0, 2, MaxActorId} : Cardinality(I) <= 2 } }

GameValues ==
    { [actors |-> as, time |-> t] :
          as \in { a \in ActorsValues : a.count = MaxCounter }, t \in F32s \ {F32Zero} }

PlayerGameValues ==
    { [player |-> p, game |-> g] :
          p \in {0, MaxActorId},
          g \in { g \in GameValues : Cardinality(DOMAIN g.actors.actors) = 2 } }

Types == {"Input", "Actor", "Actors", "Game", "PlayerGame"}

ValuesOf(T) ==
    CASE T = "Input" -> InputValues
      [] T = "Actor" -> ActorValues
      [] T = "Actors" -> ActorsValues
      [] T = "Game" -> GameValues
      [] T = "PlayerGame" -> PlayerGameValues

\* the keys of the HashMap inside a value of type T
IdsIn(T, v) ==
    CASE T = "Actors" -> DOMAIN v.actors
      [] T = "Game" -> DOMAIN v.actors.actors
      [] T = "PlayerGame" -> DOMAIN v.game.actors.actors
      [] OTHER -> {}

InitCodec ==
    /\ InitProgram
    /\ G = GameNew
    /\ gev = GameEvent("init", << >>, -1)
    /\ gissued = {}
    /\ cam = CameraNew(ShipNew.trans)
    /\ cev = CameraEvent("init", TheMap, Vec2Zero)
    /\ ctype \in Types
    /\ cval \in ValuesOf(ctype)
    /\ cbytes = << >>
    /\ cdec = Failed
    /\ ThreadsIdle
    /\ cpc = "value"

\* bincode::encode(&v)
CodecEncode ==
    /\ cpc = "value"
    /\ \E order \in Orders(IdsIn(ctype, cval)) :
           cbytes' = EncodeValue(ctype, cval, order)
    /\ cpc' = "encoded"
    /\ UNCHANGED << ctype, cval, cdec, netvars, gamevars, ghostvars, srvvars, pingvars,
                    actorvars, camvars, threadvars >>

\* bincode::decode(bytes)
CodecDecode ==
    /\ cpc = "encoded"
    /\ cdec' = DecodeValue(ctype, cbytes)
    /\ cpc' = "decoded"
    /\ UNCHANGED << ctype, cval, cbytes, netvars, gamevars, ghostvars, srvvars, pingvars,
                    actorvars, camvars, threadvars >>

NextCodec ==
    \/ CodecEncode
    \/ CodecDecode

SpecCodec == InitCodec /\ [][NextCodec]_vars

\* ------------------------------------------------------------------------
\* Ship::advance applied to a ship at every stage of its cooldown: the Game
\* holds one ship that last fired 0 to FIRING_INTERVAL_TICKS steps ago.

CoolingShips ==
    { [ShipNew EXCEPT !.not_firing_for = n] : n \in 0..FIRING_INTERVAL_TICKS }

InitShip ==
    /\ InitProgram
    /\ G \in { [GameNew EXCEPT !.actors = add(ActorsNew, s).as] : s \in CoolingShips }
    /\ gev = GameEvent("init", << >>, -1)
    /\ gissued = KeysOf(G)
    /\ cam = CameraNew(ShipNew.trans)
    /\ cev = CameraEvent("init", TheMap, Vec2Zero)
    /\ CodecIdle
    /\ ThreadsIdle

\* the Inputs of a player who flies, turns and shoots
ShipInputs ==
    { [quit |-> FALSE, accel |-> a, firing |-> f, rotating |-> r, paused |-> FALSE] :
          a \in BOOLEAN, f \in BOOLEAN, r \in {"Still", "Left"} } \ { NoInput.val }

ShipAdvances == GAdvanceWith(ShipInputs)

NextShip == ShipAdvances

SpecShip == InitShip /\ [][NextShip]_vars

\* ------------------------------------------------------------------------
\* attach_sdl: the input thread, the main loop and the quit signal

InitQuit ==
    /\ InitProgram
    /\ G = GameNew
    /\ gev = GameEvent("init", << >>, -1)
    /\ gissued = {}
    /\ cam = CameraNew(ShipNew.trans)
    /\ cev = CameraEvent("init", TheMap, Vec2Zero)
    /\ CodecIdle
    /\ \E kind \in {"inproc", "udp"} : QuitStart(kind)
    /\ RaceStart
    /\ LockStart

\* the input thread: process_events gives an Input with quit set;
\* quit_tx.send(()) and break, which drops quit_tx
InputThreadQuit ==
    /\ ipc = "loop"
    /\ ipc' = "done"
    /\ quit_chan' = [msgs |-> quit_chan.msgs + 1, tx |-> FALSE]
    /\ UNCHANGED << qkind, mpc, qpeer, qinbox, qrounds, qpolls, qsends >>
    /\ UNCHANGED << netvars, gamevars, ghostvars, srvvars, pingvars,
                    actorvars, camvars, codecvars, racevars, lockvars >>

\* the input thread: the Input has changed and send_input is called; the
\* thread ends when it returns false, which no handle does while its server
\* is there
InputThreadSend ==
    /\ ipc = "loop"
    /\ qsends < MaxQuitInputs
    /\ \E is_alive \in {TRUE} \cup (IF qpeer = "gone" THEN {FALSE} ELSE {}) :
           /\ qsends' = qsends + 1
           /\ ipc' = IF is_alive THEN "loop" ELSE "done"
           /\ quit_chan' = [quit_chan EXCEPT !.tx = is_alive]
    /\ UNCHANGED << qkind, mpc, qpeer, qinbox, qrounds, qpolls >>
    /\ UNCHANGED << netvars, gamevars, ghostvars, srvvars, pingvars,
                    actorvars, camvars, codecvars, racevars, lockvars >>

\* the main loop: quit_rx.try_recv() and the match on it
SdlTryRecv ==
    /\ mpc = "try_recv"
    /\ IF quit_chan.msgs > 0
       THEN /\ quit_chan' = [quit_chan EXCEPT !.msgs = @ - 1]
            /\ mpc' = "done"
       ELSE /\ quit_chan' = quit_chan
            /\ mpc' = IF quit_chan.tx THEN "recv_game" ELSE "done"
    /\ qpolls' = 0
    /\ UNCHANGED << qkind, ipc, qpeer, qinbox, qrounds, qsends >>
    /\ UNCHANGED << netvars, gamevars, ghostvars, srvvars, pingvars,
                    actorvars, camvars, codecvars, racevars, lockvars >>

\* recv_game of ServerClientRecv: receiver.recv() blocks until there is a
\* Game or the sender is gone
recv_game_inproc ==
    /\ qkind = "inproc"
    /\ \/ /\ qinbox > 0
          /\ qinbox' = qinbox - 1
          /\ mpc' = "on_game_update"
       \/ /\ qinbox = 0
          /\ qpeer = "gone"
          /\ qinbox' = qinbox
          /\ mpc' = "done"
    /\ qpolls' = qpolls

\* recv_game of network::ClientHandle: a round of its loop, which ends the
\* call on Ok and on Closed, and recv gives no Closed; on TimedOut the loop
\* goes round
recv_game_udp ==
    /\ qkind = "udp"
    /\ IF qinbox > 0
       THEN /\ qinbox' = qinbox - 1
            /\ mpc' = "on_game_update"
            /\ qpolls' = qpolls
       ELSE /\ qinbox' = qinbox
            /\ mpc' = "recv_game"
            /\ qpolls' = (qpolls + 1) % (MaxPolls + 1)

\* the main loop: recv.recv_game()
SdlRecvGame ==
    /\ mpc = "recv_game"
    /\ recv_game_inproc \/ recv_game_udp
    /\ UNCHANGED << qkind, ipc, quit_chan, qpeer, qrounds, qsends >>
    /\ UNCHANGED << netvars, gamevars, ghostvars, srvvars, pingvars,
                    actorvars, camvars, codecvars, racevars, lockvars >>

\* the main loop: on_game_update(game)
SdlUpdate ==
    /\ mpc = "on_game_update"
    /\ mpc' = "try_recv"
    /\ qrounds' = IF quit_chan.msgs > 0 THEN qrounds + 1 ELSE qrounds
    /\ UNCHANGED << qkind, ipc, quit_chan, qpeer, qinbox, qpolls, qsends >>
    /\ UNCHANGED << netvars, gamevars, ghostvars, srvvars, pingvars,
                    actorvars, camvars, codecvars, racevars, lockvars >>

\* the server: a Game for this handle, from broadcast or in a datagram
PeerSends ==
    /\ qpeer = "up"
    /\ qinbox < MaxInbox
    /\ qinbox' = qinbox + 1
    /\ UNCHANGED << qkind, ipc, quit_chan, mpc, qpeer, qrounds, qpolls, qsends >>
    /\ UNCHANGED << netvars, gamevars, ghostvars, srvvars, pingvars,
                    actorvars, camvars, codecvars, racevars, lockvars >>

\* the server stops sending to this handle: its sender is dropped, or its
\* datagrams no longer come
PeerGoes ==
    /\ qpeer = "up"
    /\ qpeer' = "gone"
    /\ UNCHANGED << qkind, ipc, quit_chan, mpc, qinbox, qrounds, qpolls, qsends >>
    /\ UNCHANGED << netvars, gamevars, ghostvars, srvvars, pingvars,
                    actorvars, camvars, codecvars, racevars, lockvars >>

NextQuit ==
    \/ InputThreadQuit
    \/ InputThreadSend
    \/ SdlTryRecv
    \/ SdlRecvGame
    \/ SdlUpdate
    \/ PeerSends
    \/ PeerGoes

\* the main loop and the server are threads that go on when they can
SpecQuit ==
    InitQuit /\ [][NextQuit]_vars
        /\ WF_vars(SdlTryRecv \/ SdlRecvGame \/ SdlUpdate)
        /\ WF_vars(PeerSends)

\* ------------------------------------------------------------------------
\* The Conn of a client under its Mutex

\* a Mutex that lets every thread in
MutexIgnored(holder) == TRUE

\* Mutex::lock succeeds when no thread holds the Mutex
MutexFree(holder) == holder = "none"

\* ping_worker, ClientHandle::send, ClientHandle::recv: conn.lock()
ConnLock(t) ==
    /\ hpc[t] = "idle"
    /\ hcalls < MaxRaceSends
    /\ MutexFree(hlock)
    /\ hlock' = t
    /\ hpc' = [hpc EXCEPT ![t] = "check"]
    /\ hcalls' = hcalls + 1
    /\ UNCHANGED << hconn, hreg, hwire, hbumps >>

\* encode_and_send: the test of the timeout
ConnCheck(t) ==
    /\ hpc[t] = "check"
    /\ \E timed_out \in BOOLEAN :
           hpc' = [hpc EXCEPT ![t] = IF timed_out THEN "unlock" ELSE "load"]
    /\ UNCHANGED << hconn, hlock, hreg, hwire, hbumps, hcalls >>

\* Seq::bump, self.0 += 1: the read
ConnLoad(t) ==
    /\ hpc[t] = "load"
    /\ hreg' = [hreg EXCEPT ![t] = hconn.local.seq]
    /\ hpc' = [hpc EXCEPT ![t] = "store"]
    /\ UNCHANGED << hconn, hlock, hwire, hbumps, hcalls >>

\* Seq::bump, self.0 += 1: the write
ConnStore(t) ==
    /\ hpc[t] = "store"
    /\ hconn' = [hconn EXCEPT !.local.seq = bump(hreg[t])]
    /\ hbumps' = hbumps + 1
    /\ hpc' = [hpc EXCEPT ![t] = "send"]
    /\ UNCHANGED << hlock, hreg, hwire, hcalls >>

\* encode_and_send: Header::new(conn.local, msg_type), encode_into and send_to
ConnSend(t) ==
    /\ hpc[t] = "send"
    /\ \E io_ok \in BOOLEAN :
           hwire' = IF io_ok
                    THEN Append(hwire, [by |-> t, seq |-> hconn.local.seq])
                    ELSE hwire
    /\ hpc' = [hpc EXCEPT ![t] = "unlock"]
    /\ UNCHANGED << hconn, hlock, hreg, hbumps, hcalls >>

\* the guard of the Mutex goes out of scope
ConnUnlock(t) ==
    /\ hpc[t] = "unlock"
    /\ hlock' = IF hlock = t THEN "none" ELSE hlock
    /\ hpc' = [hpc EXCEPT ![t] = "idle"]
    /\ UNCHANGED << hconn, hreg, hwire, hbumps, hcalls >>

\* what the threads of a client leave alone
RaceRest ==
    UNCHANGED << netvars, gamevars, ghostvars, srvvars, pingvars,
                 actorvars, camvars, codecvars, quitvars, lockvars >>

NextRace ==
    \/ \E t \in ConnThreads : ConnLock(t) /\ RaceRest
    \/ \E t \in ConnThreads : ConnCheck(t) /\ RaceRest
    \/ \E t \in ConnThreads : ConnLoad(t) /\ RaceRest
    \/ \E t \in ConnThreads : ConnStore(t) /\ RaceRest
    \/ \E t \in ConnThreads : ConnSend(t) /\ RaceRest
    \/ \E t \in ConnThreads : ConnUnlock(t) /\ RaceRest

SpecRace == Init /\ [][NextRace]_vars

\* ------------------------------------------------------------------------
\* The mutexes of the Server

LockOf(m) == [op |-> "lock", on |-> m]

UnlockOf(m) == [op |-> "unlock", on |-> m]

Work(w) == [op |-> "work", on |-> w]

\* JoinHandle::join
join_steps ==
    << LockOf("games"), Work("add_ship"), UnlockOf("games"),
       LockOf("clients"), Work("insert"), UnlockOf("clients") >>

\* Server::run: the block that advances the front Game and pushes the new one
tick_steps ==
    << LockOf("games"), Work("advance"), UnlockOf("games") >>

\* Server::broadcast: the block that sends to every client
broadcast_steps ==
    << LockOf("clients"), Work("send"), UnlockOf("clients") >>

\* a remove_player that takes the ship while it still holds clients
remove_player_nested ==
    << LockOf("clients"), Work("remove_client"),
       LockOf("games"), Work("remove_ship"), UnlockOf("games"),
       UnlockOf("clients") >>

\* Server::remove_player
remove_player_steps ==
    << LockOf("clients"), Work("remove_client"), UnlockOf("clients"),
       LockOf("games"), Work("remove_ship"), UnlockOf("games") >>

\* the calls of remove_player that broadcast makes for n dead players
RECURSIVE RemoveAll(_)
RemoveAll(n) == IF n = 0 THEN << >> ELSE remove_player_steps \o RemoveAll(n - 1)

\* a thread calls join
JoinBegin(t) ==
    /\ t # "run"
    /\ lprog[t] = << >>
    /\ lclients < MaxJoins
    /\ lprog' = [lprog EXCEPT ![t] = join_steps]
    /\ UNCHANGED << lheld, lclients, lticks >>

\* Server::run: an iteration of its loop begins
RunBegin ==
    /\ lprog["run"] = << >>
    /\ lticks < MaxLockTicks
    /\ lprog' = [lprog EXCEPT !["run"] = tick_steps \o broadcast_steps]
    /\ lticks' = lticks + 1
    /\ UNCHANGED << lheld, lclients >>

\* whether thread t can take its next step
CanStep(t) ==
    /\ lprog[t] # << >>
    /\ Head(lprog[t]).op = "lock" => MutexFree(lheld[Head(lprog[t]).on])

\* lock().unwrap() on one of the mutexes
ThreadLock(t) ==
    /\ CanStep(t)
    /\ Head(lprog[t]).op = "lock"
    /\ lheld' = [lheld EXCEPT ![Head(lprog[t]).on] = t]
    /\ lprog' = [lprog EXCEPT ![t] = Tail(@)]
    /\ UNCHANGED << lclients, lticks >>

\* the guard of a mutex goes out of scope
ThreadUnlock(t) ==
    /\ CanStep(t)
    /\ Head(lprog[t]).op = "unlock"
    /\ lheld' = [lheld EXCEPT ![Head(lprog[t]).on] = "none"]
    /\ lprog' = [lprog EXCEPT ![t] = Tail(@)]
    /\ UNCHANGED << lclients, lticks >>

\* what a thread does under a mutex; the loop of broadcast finds some of the
\* clients dead, and remove_player is called for each after the block
ThreadWork(t) ==
    /\ CanStep(t)
    /\ Head(lprog[t]).op = "work"
    /\ \E ndead \in 0..MaxDead :
           /\ ndead <= lclients
           /\ lprog' = [lprog EXCEPT ![t] =
                            IF Head(@).on = "send" THEN Tail(@) \o RemoveAll(ndead)
                            ELSE Tail(@)]
           /\ Head(lprog[t]).on # "send" => ndead = 0
    /\ lclients' = CASE Head(lprog[t]).on = "insert" -> lclients + 1
                     [] Head(lprog[t]).on = "remove_client" /\ lclients > 0 -> lclients - 1
                     [] OTHER -> lclients
    /\ UNCHANGED << lheld, lticks >>

\* what the threads of the Server leave alone
LocksRest ==
    UNCHANGED << netvars, gamevars, ghostvars, srvvars, pingvars,
                 actorvars, camvars, codecvars, quitvars, racevars >>

NextLocks ==
    \/ RunBegin /\ LocksRest
    \/ \E t \in LockThreads : JoinBegin(t) /\ LocksRest
    \/ \E t \in LockThreads : ThreadLock(t) /\ LocksRest
    \/ \E t \in LockThreads : ThreadUnlock(t) /\ LocksRest
    \/ \E t \in LockThreads : ThreadWork(t) /\ LocksRest

SpecLocks == Init /\ [][NextLocks]_vars

\* ------------------------------------------------------------------------
\* Properties

\* the header a datagram starts with
HeaderOf(data) == DecodeHeader(data, Len(data))

\* a datagram that starts with a header of this protocol
HasMagic(data) == HeaderOf(data).ok /\ HeaderOf(data).val.proto_id = PROTO_ID

\* a datagram that starts with a header of this protocol and of type t
IsType(data, t) == HasMagic(data) /\ HeaderOf(data).val.msg_type = t

\* every Conn there is, with the address that names it
ConnsNow == { [peer |-> ServerAddr, conn |-> conn] }
                \cup { [peer |-> a, conn |-> clients[a]] : a \in DOMAIN clients }

SendOps == {"client_send", "client_ping", "server_send", "broadcast_send"}

\* C2: a call of encode_and_send on any Conn, with any type of message and
\* whether or not the socket works, returns Closed exactly when now minus the
\* Conn's last-received time is more than 10000 ms; it then puts nothing on
\* the wire and gives the Conn back as it was.  A send that has returned
\* Closed has put nothing on the wire.
C2_ClosedExactlyWhenIdleTooLong ==
    /\ \A c \in ConnsNow, t \in {"Ping", "Pong", "Normal"}, io_ok \in BOOLEAN :
           LET r == encode_and_send(c.conn, now, PING_BUF_SIZE, t, << >>, io_ok)
           IN  /\ (r.res = "Closed") <=> (now - c.conn.remote.received > 10000)
               /\ r.res = "Closed" => r.conn = c.conn /\ r.wire = << >>
    /\ ev.op \in SendOps /\ ev.res = "Closed" => ev.out = 0
    /\ ev.op \in {"client_send", "client_ping"} =>
           ((ev.res = "Closed") <=> (now - conn.remote.received > 10000))

\* C2 witness: on a Conn that has sent and has been idle for 10001 ms, a send
\* of the client has returned Closed
C2_Witness ==
    /\ ev.op = "client_send"
    /\ ev.res = "Closed"
    /\ conn.local.seq > 0
    /\ now - conn.remote.received = 10001

\* the Conn a receive worked on, as it is after the receive
ConnOf(peer) == IF peer = ServerAddr THEN conn ELSE clients[peer]

\* a receive that looked at its datagram: the server's, or the client's of a
\* datagram from the peer it is connected to
Looked == ev.op = "server_recv" \/ (ev.op = "client_recv" /\ ev.res # "Skipped")

\* C3: every received datagram that starts with the magic, of whatever type,
\* sets the Conn's last-received time to now
C3_MagicResetsLastReceived ==
    Looked /\ HasMagic(ev.data) => ConnOf(ev.peer).remote.received = now

\* C7: a receive of a Ping that starts with the magic puts exactly one
\* datagram, a Pong to the Ping's source, on the wire unless the socket fails,
\* and returns no body; a receive of a Pong puts nothing on the wire and
\* returns no body; a receive that returns a body has received a Normal
C7_PingAnsweredByOnePong ==
    /\ Looked /\ IsType(ev.data, "Ping") /\ ev.res # "Err" =>
           /\ ev.out = 1
           /\ ev.res = "None"
           /\ \E d \in wire : /\ d.dst = (IF ev.op = "server_recv" THEN ev.peer
                                          ELSE ServerAddr)
                              /\ IsType(d.data, "Pong")
    /\ Looked /\ IsType(ev.data, "Pong") => ev.out = 0 /\ ev.res = "None"
    /\ Looked /\ ev.res = "Some" => IsType(ev.data, "Normal")

\* C9: a received datagram of type Normal whose header is good tickles the
\* Conn whether or not its body decodes: last-received is now and local.ack
\* and remote.ack are no older than the header's seq and ack
C9_HeaderTicklesBeforeBody ==
    Looked /\ IsType(ev.data, "Normal") =>
        /\ ConnOf(ev.peer).remote.received = now
        /\ ConnOf(ev.peer).local.ack >= HeaderOf(ev.data).val.local.seq
        /\ ConnOf(ev.peer).remote.ack >= HeaderOf(ev.data).val.local.ack

\* C1: when broadcast_game has run to its end, every client whose send
\* returned Closed in it is out of the game server's clients and its ship is
\* out of the game
C1_ClosedPeerLosesShip ==
    pc = "sleep" =>
        \A c \in closed : c.addr \notin DOMAIN game_clients /\ c.ship \notin actors

\* C1, the step the claim is right about: a send that returns Closed takes
\* the peer out of the server's connection table
C1_ClosedLeavesTable ==
    ev.op \in {"server_send", "broadcast_send"} /\ ev.res = "Closed" =>
        ev.peer \notin DOMAIN clients

\* s is strictly increasing
Increasing(s) == \A i, j \in 1..Len(s) : i < j => s[i] < s[j]

\* C4 as written: on every Conn the packets sent carry strictly increasing
\* local.seq, a new Conn's counter is 0, and the first packet sent carries 1
C4_FirstPacketCarriesOne ==
    /\ ConnNew(now).local.seq = 0
    /\ \A k \in DOMAIN sent :
           /\ Increasing(sent[k])
           /\ sent[k] # << >> => sent[k][1] = 1

\* the Conn named k before a step (a Conn the server does not have yet is
\* made by Conn::new as the step begins)
Before(k) ==
    IF k = ServerAddr THEN conn
    ELSE IF k \in DOMAIN clients THEN clients[k] ELSE ConnNew(now)

\* C4 amended: on every Conn the packets sent carry strictly increasing
\* local.seq, a new Conn's counter is 0, and a packet carries the Conn's
\* counter before the call plus 1: the first call sends 1, and a call that
\* fails after the timeout test uses its number up
C4_SeqStrictlyIncreasing ==
    [][ /\ ConnNew(now).local.seq = 0
        /\ \A k \in DOMAIN sent : Increasing(sent'[k])
        /\ ev'.out = 1 /\ ev'.op # "foreign" =>
               /\ sent'[ev'.peer] # << >>
               /\ sent'[ev'.peer][Len(sent'[ev'.peer])] = Before(ev'.peer).local.seq + 1
               /\ Before(ev'.peer).local.seq = 0 => sent'[ev'.peer] = << 1 >> ]_vars

\* C4 witness: a Conn has sent two packets
C4_Witness == \E k \in DOMAIN sent : Len(sent[k]) >= 2

\* C5: in an exchange of Normal datagrams where no send fails and nothing is
\* lost, each Conn's local.seq is the number of packets sent on it, its
\* local.ack is the highest local.seq received on it, and a receive leaves
\* local.seq as it was
C5_SeqCountsSentAckIsHighestReceived ==
    [][ /\ \A c \in ConnsNow' :
               /\ c.conn.local.seq = Len(sent'[c.peer])
               /\ c.conn.local.ack = heard'[c.peer]
        /\ ev'.op = "client_recv" => conn'.local.seq = conn.local.seq
        /\ ev'.op = "server_recv" =>
               clients'[ev'.peer].local.seq = Before(ev'.peer).local.seq ]_vars

\* C5 witness: one send in each direction, both delivered: seq = 1 and
\* ack = 1 on both sides
C5_Witness ==
    /\ wire = {}
    /\ conn.local = [seq |-> 1, ack |-> 1]
    /\ ClientAddr \in DOMAIN clients
    /\ clients[ClientAddr].local = [seq |-> 1, ack |-> 1]

\* C6: a call of tickle leaves local.ack at the greater of its old value and
\* the header's seq, and remote.ack at the greater of its old value and the
\* header's ack; neither ever decreases
C6_TickleKeepsTheMaximum ==
    [][ ev'.op = "tickle" =>
            LET h == HeaderOf(ev'.data).val.local IN
            /\ conn'.local.ack = (IF conn.local.ack >= h.seq THEN conn.local.ack
                                  ELSE h.seq)
            /\ conn'.remote.ack = (IF conn.remote.ack >= h.ack THEN conn.remote.ack
                                   ELSE h.ack)
            /\ conn'.local.ack >= conn.local.ack
            /\ conn'.remote.ack >= conn.remote.ack ]_vars

\* C6 witness: tickle has been called with a header older than the Conn in
\* both seq and ack
C6_Witness ==
    /\ ev.op = "tickle"
    /\ HeaderOf(ev.data).val.local.seq < conn.local.ack
    /\ HeaderOf(ev.data).val.local.ack < conn.remote.ack

\* the Conn named k after a step
After(k) == IF k = ServerAddr THEN conn' ELSE clients'[k]

\* the body type the receiver asks for
BodyTypeOf(op) == IF op = "server_recv" THEN "Input" ELSE "PlayerGame"

\* a datagram whose own bytes are not a packet with a body of type T and
\* the magic
Undecodable(T, data) == ~DecodePacket(T, data, Len(data)).ok \/ ~HasMagic(data)

\* C8: a received datagram with another magic, or whose bytes do not decode,
\* is not returned, puts nothing on the wire, leaves the Conn as it was and
\* in the table, and the receive goes on (it does not return an error)
C8_UndecodableDropped ==
    [][ /\ ev'.op = "server_recv" \/ (ev'.op = "client_recv" /\ ev'.res # "Skipped")
        /\ Undecodable(BodyTypeOf(ev'.op), ev'.data)
        => /\ ev'.res = "None"
           /\ ev'.out = 0
           /\ ev'.peer = ServerAddr \/ ev'.peer \in DOMAIN clients'
           /\ After(ev'.peer) = Before(ev'.peer) ]_vars

\* C10: a receive of the client that gets a datagram from another address
\* than the server's skips it: the Conn stays as it was, nothing is put on
\* the wire, no body is returned
C10_OtherSourcesSkipped ==
    [][ ev'.op = "client_recv" /\ ev'.peer # ServerAddr =>
            /\ ev'.res = "Skipped"
            /\ ev'.out = 0
            /\ conn' = conn
            /\ wire' \subseteq wire
            /\ sent' = sent ]_vars

\* C10 witness: the client has received a Ping from the third party while a
\* Conn of the server has datagrams of the client to acknowledge
C10_Witness ==
    /\ ev.op = "client_recv"
    /\ ev.peer = ForeignAddr
    /\ IsType(ev.data, "Ping")
    /\ conn.local.seq > 0

\* C11: a Server::send to an address that has no Conn in the table returns
\* NotConnected, puts nothing on the wire and leaves the table as it was (no
\* Conn is made for the address); it returns NotConnected in no other case
C11_SendToUnknownNotConnected ==
    [][ ev'.op \in {"server_send", "broadcast_send"} =>
            /\ (ev'.res = "NotConnected") <=> (ev'.peer \notin DOMAIN clients)
            /\ ev'.peer \notin DOMAIN clients =>
                   /\ ev'.out = 0
                   /\ wire' = wire
                   /\ clients' = clients
                   /\ ev'.peer \notin DOMAIN clients' ]_vars

\* C11 witness: the server, which has a Conn for the client, has sent to the
\* third party, for which it has none
C11_Witness ==
    /\ ev.op = "server_send"
    /\ ev.res = "NotConnected"
    /\ ev.peer = ForeignAddr
    /\ DOMAIN clients = {ClientAddr}

\* C12: the ring of Games holds at least 1 and at most 32 Games, after
\* Server::new and after every step of run, of join and of remove_player
C12_RingHoldsOneTo32 == Len(games) >= 1 /\ Len(games) <= 32

\* C12 witness: run has pushed more Games than the ring holds, a player has
\* joined and has been removed, and the ring is full
C12_Witness ==
    /\ ntick > SERVER_GAMES
    /\ Len(games) = SERVER_GAMES
    /\ DOMAIN reg_at # {}
    /\ DOMAIN srv_clients = {}
    /\ Keys(games[1]) = {}

\* the numbers of the inputs in a sequence of (ActorId, Input)
NumbersOf(batch) == [i \in 1..Len(batch) |-> batch[i].n]

\* C13: an input goes into the batch of one iteration and stays there; until
\* then it is in the channel, once; an input sent while prepare_inputs was
\* not running goes into the batch of the next iteration to begin, one sent
\* while it was running into that batch or the next; when the drain ends,
\* every input sent before the iteration began has been batched, and the
\* batch that advance gets is the inputs of this iteration in the order sent
C13_InputsInExactlyOneBatch ==
    [][ /\ \A n \in 1..nsent : fate[n] # 0 => fate'[n] = fate[n]
        /\ \A n \in 1..nsent' :
               /\ (fate'[n] = 0) <=> (\E i \in 1..Len(cmds_chan') : cmds_chan'[i].n = n)
               /\ Cardinality({ i \in 1..Len(cmds_chan') : cmds_chan'[i].n = n }) <= 1
               /\ fate'[n] # 0 =>
                      \/ fate'[n] = sent_in'[n].tick + 1
                      \/ sent_in'[n].draining /\ fate'[n] = sent_in'[n].tick
        /\ spc' = "advance" =>
               /\ \A n \in 1..nsent' : sent_in'[n].tick < ntick' => fate'[n] # 0
               /\ \A n \in 1..nsent' :
                      (fate'[n] = ntick') <=> (\E i \in 1..Len(cmds') : cmds'[i].n = n)
               /\ Increasing(NumbersOf(cmds'))
        /\ sev'.op = "advance" =>
               \E order \in Orders(Keys(games[1])) :
                   games'[1] = GameAdvance(games[1], cmds, order) ]_vars

\* C13 witness: an input has gone into the batch of iteration 1, and an
\* input sent while iteration 1 computed its Game into the batch of 2
C13_Witness ==
    \E n, m \in 1..nsent :
        /\ fate[n] = 1
        /\ fate[m] = 2
        /\ sent_in[m].tick = 1
        /\ ~sent_in[m].draining

\* C14: a ship that has several inputs in the batch of an iteration comes
\* out of advance with accel and rotating of the last of them
C14_LastInputWins ==
    [][ sev'.op = "advance" =>
            \A id \in Keys(games[1]) :
                LET I == { i \in 1..Len(cmds) : cmds[i].player = id }
                    last == CHOOSE i \in I : \A j \in I : j <= i
                IN  I # {} /\ games[1].actors.actors[id].kind = "Ship" =>
                        /\ games'[1].actors.actors[id].accel = cmds[last].input.accel
                        /\ games'[1].actors.actors[id].rotating
                               = cmds[last].input.rotating ]_vars

\* the times of the Games in a channel
TimesOf(chan) == [i \in 1..Len(chan) |-> chan[i].time]

\* s goes up by one at each place
Successive(s) == \A i \in 1..(Len(s) - 1) : s[i + 1] = s[i] + 1

\* the time of the last Game that broadcast has sent
LastBroadcast == IF spc = "broadcast" THEN new_game.time - 1 ELSE new_game.time

\* C15: what a receive handle has yielded and has still to yield are the
\* Games of successive iterations, each once, beginning no later than the
\* first iteration after join registered the sender and, as long as the
\* handle lives, ending with the last Game broadcast
C15_GamesInTickOrder ==
    /\ \A id \in DOMAIN received : Successive(received[id])
    /\ \A id \in recv_handles :
           LET s == received[id] \o TimesOf(srv_clients[id]) IN
           /\ Successive(s)
           /\ s = << >> => LastBroadcast <= reg_at[id]
           /\ s # << >> =>
                  /\ s[1] \in {reg_at[id], reg_at[id] + 1}
                  /\ s[1] >= 1
                  /\ s[Len(s)] = LastBroadcast

\* C15 witness: a player that joined after the first iteration has been
\* yielded two Games
C15_Witness ==
    \E id \in DOMAIN received : reg_at[id] >= 1 /\ Len(received[id]) >= 2

\* C16: when broadcast and its calls of remove_player are over, every id
\* whose receive handle was dropped before the broadcast is out of clients
\* and out of the front Game, and every other id that was in clients or in
\* the front Game when the broadcast began is still there
C16_DroppedSubscriberReaped ==
    spc = "delay" =>
        /\ bc.dropped \cap DOMAIN srv_clients = {}
        /\ bc.dropped \cap Keys(games[1]) = {}
        /\ (bc.clients \ bc.dropped) \subseteq DOMAIN srv_clients
        /\ (bc.ships \ bc.dropped) \subseteq Keys(games[1])

\* C16 witness: a broadcast has removed one player and left another
C16_Witness ==
    /\ spc = "delay"
    /\ bc.dropped # {}
    /\ bc.clients \ bc.dropped # {}

\* C17: the id add_ship gives to a join has never been the id of a ship or
\* of a bullet before; when join returns, the front Game has a Ship under
\* that id and clients has the sender under it
C17_JoinGivesFreshId ==
    [][ /\ sev'.op = "add_ship" =>
               /\ sev'.id \notin issued
               /\ sev'.id \in Keys(games'[1])
               /\ games'[1].actors.actors[sev'.id].kind = "Ship"
        /\ sev'.op = "join" =>
               /\ sev'.id \in Keys(games'[1])
               /\ games'[1].actors.actors[sev'.id].kind = "Ship"
               /\ sev'.id \in DOMAIN srv_clients' ]_vars

\* C17 witness: a join has returned id 2 after id 1 went to a bullet and
\* run had begun
C17_Witness ==
    /\ sev.op = "join"
    /\ sev.id = 2
    /\ 1 \in Keys(games[1])
    /\ games[1].actors.actors[1].kind = "Bullet"

\* C18: broadcast never waits for a subscriber: every broadcast that begins
\* ends, run gets through all its iterations, and after each broadcast the
\* last Game is with every live subscriber the broadcast found in clients
\* (yielded or in its channel), also when another subscriber has not taken
\* a single Game
C18_SlowSubscriberBlocksNobody ==
    /\ (spc = "broadcast") ~> (spc = "delay")
    /\ <>(ntick = MaxTicks /\ spc = "delay")
    /\ [](spc = "delay" =>
             \A id \in bc.clients \cap DOMAIN srv_clients \cap recv_handles :
                 LET s == received[id] \o TimesOf(srv_clients[id])
                 IN  s # << >> /\ s[Len(s)] = new_game.time)

\* C18 witness: one subscriber has two Games waiting and has taken none,
\* another has been yielded two
C18_Witness ==
    \E a, b \in DOMAIN srv_clients :
        /\ received[a] = << >>
        /\ Len(srv_clients[a]) >= 2
        /\ Len(received[b]) >= 2

\* C19: with the JoinHandle and every send handle dropped and no input left
\* in the channel, the next try_recv of prepare_inputs ends run
C19_ClosedChannelEndsRun ==
    [][ /\ sev'.op = "try_recv"
        /\ DOMAIN reg_at # {}
        /\ ~join_handle
        /\ send_handles = {}
        /\ cmds_chan = << >>
        => spc' = "exit" ]_vars

\* C20: once the Client is dropped its worker leaves the loop, after at
\* most one more call of send_ping; as long as the Client lives the worker
\* stays in the loop, whatever its pings return
C20_DropEndsHeartbeat ==
    /\ [](client_alive => wpc # "exited")
    /\ [](after_drop <= 1)
    /\ (~client_alive) ~> (wpc = "exited")

\* C20 witness: the worker has left the loop after a ping that returned
\* Closed while the Client lived and one ping sent after the drop
C20_Witness ==
    /\ wpc = "exited"
    /\ after_drop = 1
    /\ npings > conn.local.seq

\* C21: once more than 10 s have passed since a side last received from
\* the other, the session ends on both sides: a send of the server to the
\* peer takes the peer out of its table, a round of send_input on the
\* client returns false, and a round of recv_game returns None
C21_SilenceEndsSession ==
    [][ /\ ev'.op = "server_send" /\ ev'.peer \in DOMAIN clients
           /\ TimedOut(clients[ev'.peer], now)
           => ev'.res = "Closed" /\ ev'.peer \notin DOMAIN clients'
        /\ ev'.op = "send_input" /\ TimedOut(conn, now) => ev'.res = "false"
        /\ ev'.op = "recv_game" /\ TimedOut(conn, now) => ev'.res = "None" ]_vars

\* C21, the sending sides, which the claim is right about: after the
\* silence the server's send removes the peer and send_input returns false
C21_SendersEndSession ==
    [][ /\ ev'.op = "server_send" /\ ev'.peer \in DOMAIN clients
           /\ TimedOut(clients[ev'.peer], now)
           => ev'.res = "Closed" /\ ev'.peer \notin DOMAIN clients'
        /\ ev'.op = "send_input" /\ TimedOut(conn, now) => ev'.res = "false" ]_vars

\* C22: Game::advance gives the same Game, the same ids with the same actors
\* and the same counter, in whatever order the registry hands out its
\* actors, also in a tick in which two or more of them spawn a bullet
C22_AdvanceOrderIndependent ==
    [][ gev'.op = "advance" =>
            \A order \in Orders(KeysOf(G)) :
                GameAdvance(G, gev'.inputs, order) = G' ]_vars

\* C22, what the order cannot change: which ids the new Game has, its
\* counter and its time, and every actor that was there before the tick
C22_OrderKeepsIdsAndCount ==
    [][ gev'.op = "advance" =>
            \A order \in Orders(KeysOf(G)) :
                LET other == GameAdvance(G, gev'.inputs, order) IN
                    /\ KeysOf(other) = KeysOf(G')
                    /\ other.actors.count = G'.actors.count
                    /\ other.time = G'.time
                    /\ \A k \in KeysOf(other) \cap KeysOf(G) :
                           other.actors.actors[k] = G'.actors.actors[k] ]_vars

\* C23: in every Game reached from the empty Game by add_ship, advance and
\* removal the counter is above every key, the counter never goes down, and
\* an id that was handed out once is never handed out again, not after its
\* actor is gone either
C23_IdsNeverReused ==
    /\ [](\A k \in KeysOf(G) : G.actors.count >= k + 1)
    /\ [][ /\ G'.actors.count >= G.actors.count
           /\ \A k \in KeysOf(G') \ KeysOf(G) : k \notin gissued
           /\ gev'.op \in {"add_ship", "add"} =>
                  gev'.id \notin gissued /\ gev'.id \in KeysOf(G') ]_vars

\* C23 witness: ship 0 was removed, and a ship that joined after that and a
\* bullet spawned by advance hold ids that were never used before
C23_Witness ==
    /\ 0 \in gissued /\ 0 \notin KeysOf(G)
    /\ OfKind(G, "Ship") # {}
    /\ OfKind(G, "Bullet") # {}
    /\ G.actors.count >= 3

\* C24: every Bullet of the Game that advance returns, carried over or
\* spawned in this tick by a ship or a shooter, is inside the map and younger
\* than its lifetime
C24_BulletsInsideMap ==
    [][ gev'.op = "advance" =>
            \A k \in OfKind(G', "Bullet") : alive(G'.actors.actors[k]) ]_vars

\* C24, the bullets that were there before the tick: those that advance
\* keeps are inside the map and younger than their lifetime
C24_CarriedBulletsInsideMap ==
    [][ gev'.op = "advance" =>
            \A k \in OfKind(G', "Bullet") \cap KeysOf(G) :
                alive(G'.actors.actors[k]) ]_vars

\* C25: on a map at least as large as the screen, after Camera::advance from
\* any camera, any velocity of the ship and any place of the ship on the map,
\* the camera is inside the map: 0 <= x <= map.w - SCREEN_WIDTH and
\* 0 <= y <= map.h - SCREEN_HEIGHT
C25_CameraInsideMap ==
    cev.op = "advance" =>
        /\ 0 <= cam.pos.x /\ cam.pos.x <= cev.map.w - SCREEN_WIDTH
        /\ 0 <= cam.pos.y /\ cam.pos.y <= cev.map.h - SCREEN_HEIGHT

\* C25 witness: a camera that the ship at the right and bottom edge of the
\* large map has pulled against the edges of the map
C25_Witness ==
    /\ cev.op = "advance"
    /\ cev.map = TheMap
    /\ cev.ship_pos = [x |-> MAP_W, y |-> MAP_H]
    /\ cam.pos = [x |-> MAP_W - SCREEN_WIDTH, y |-> MAP_H - SCREEN_HEIGHT]

\* C26: no datagram that the send path emits is longer than 1400 bytes; when
\* the header and the body do not fit into the buffer the send fails with an
\* error and puts nothing on the wire
C26_NoDatagramOverMax ==
    /\ [](\A d \in wire : Len(d.data) <= MAX_PACKET_SIZE)
    /\ [](\A addr \in DOMAIN clients, game \in Games \cup LargeGames, io_ok \in BOOLEAN :
             /\ ~TimedOut(clients[addr], now)
             /\ Len(EncodeHeader(clients[addr].local, "Normal"))
                    + Len(EncodePlayerGame(game)) > MAX_PACKET_SIZE
             => /\ encode_and_send(clients[addr], now, MAX_PACKET_SIZE, "Normal",
                                   EncodePlayerGame(game), io_ok).res = "EncodeError"
                /\ encode_and_send(clients[addr], now, MAX_PACKET_SIZE, "Normal",
                                   EncodePlayerGame(game), io_ok).wire = << >>)
    /\ [][ev'.res = "EncodeError" => wire' = wire]_vars

\* C26 witness: the largest game that fits is on the wire, and the send of
\* the game with one more ship has failed
C26_Witness ==
    /\ ev.op = "server_send" /\ ev.res = "EncodeError" /\ ev.out = 0
    /\ \E d \in wire : d.src = ServerAddr /\ Len(d.data) > MAX_PACKET_SIZE - 51

\* C27: for every value that goes over the wire, an Input, an Actor, a
\* registry with any ids and any counter, a Game, a PlayerGame, decoding the
\* bytes that encoding it gives yields the value again
C27_CodecRoundTrip ==
    cpc = "decoded" => cdec.ok /\ cdec.val = cval /\ cdec.off = Len(cbytes)

\* C27 witness: a PlayerGame whose registry holds two actors under ids that
\* are not 0 and 1 has been encoded and decoded
C27_Witness ==
    /\ cpc = "decoded"
    /\ ctype = "PlayerGame"
    /\ DOMAIN cval.game.actors.actors = {2, MaxActorId}
    /\ cdec.ok

\* the bullets that the last advance has spawned
Spawned(before, after) == OfKind(after, "Bullet") \ KeysOf(before)

\* C28: Ship::advance with an Input that has firing set spawns one bullet of
\* age 0 and sets the cooldown to 0 if and only if the cooldown, after dt
\* has been added for this tick, is at least firing_interval; otherwise it
\* spawns nothing and the cooldown has only grown by dt
C28_FiresOnCooldownAfterStep ==
    [][ gev'.op = "advance" =>
            \A k \in OfKind(G, "Ship") :
                lookup(gev'.inputs, k).some /\ lookup(gev'.inputs, k).val.firing =>
                    IF G.actors.actors[k].not_firing_for + 1 >= FIRING_INTERVAL_TICKS
                    THEN /\ Cardinality(Spawned(G, G')) = 1
                         /\ \A b \in Spawned(G, G') :
                                G'.actors.actors[b].not_firing_for = 0
                         /\ G'.actors.actors[k].not_firing_for = 0
                    ELSE /\ Spawned(G, G') = {}
                         /\ G'.actors.actors[k].not_firing_for
                                = G.actors.actors[k].not_firing_for + 1 ]_vars

\* C28, with the cooldown as it was before dt is added: this is the test
\* that Ship::advance makes
C28_FiresOnCooldownBeforeStep ==
    [][ gev'.op = "advance" =>
            \A k \in OfKind(G, "Ship") :
                lookup(gev'.inputs, k).some /\ lookup(gev'.inputs, k).val.firing =>
                    IF G.actors.actors[k].not_firing_for >= FIRING_INTERVAL_TICKS
                    THEN /\ Cardinality(Spawned(G, G')) = 1
                         /\ \A b \in Spawned(G, G') :
                                G'.actors.actors[b].not_firing_for = 0
                         /\ G'.actors.actors[k].not_firing_for = 0
                    ELSE /\ Spawned(G, G') = {}
                         /\ G'.actors.actors[k].not_firing_for
                                = G.actors.actors[k].not_firing_for + 1 ]_vars

\* C29: in a tick whose batch has no Input for a ship, Ship::advance keeps
\* the accel and the rotating the ship had and spawns no bullet, also when
\* the last Input had firing set and the cooldown has run out
C29_NoInputKeepsControls ==
    [][ gev'.op = "advance" =>
            \A k \in OfKind(G, "Ship") :
                ~lookup(gev'.inputs, k).some =>
                    /\ G'.actors.actors[k].accel = G.actors.actors[k].accel
                    /\ G'.actors.actors[k].rotating = G.actors.actors[k].rotating
                    /\ Spawned(G, G') = {} ]_vars

\* C29 witness: a ship that was told to fly, turn left and shoot while it
\* could not shoot yet has gone through a tick without an Input, its
\* cooldown run out: it flies and turns as before, and there is no bullet
C29_Witness ==
    /\ gev.op = "advance" /\ gev.inputs = << >>
    /\ G.time = 2
    /\ OfKind(G, "Ship") = {0}
    /\ G.actors.actors[0].accel /\ G.actors.actors[0].rotating = "Left"
    /\ G.actors.actors[0].not_firing_for = FIRING_INTERVAL_TICKS
    /\ G.actors.count = 1

\* the bullets of the last advance that stand at the shooter's transform
SpawnedAtShooter(before, after) ==
    { b \in Spawned(before, after) : after.actors.actors[b].trans = ShooterTrans }

\* C30: a Shooter fires only in a tick in which its time_since_fire, dt
\* added, is strictly greater than its firing_rate: then it spawns one
\* bullet at its fixed transform and time_since_fire is 0 again; in every
\* other tick it spawns nothing.  With a firing_rate of two steps and
\* time_since_fire 0 at the start that is the third tick, not the second
C30_ShooterFiresAboveRate ==
    [][ gev'.op = "advance" =>
            \A k \in OfKind(G, "Shooter") :
                IF G.actors.actors[k].not_firing_for + 1 > SHOOTER_FIRING_RATE_TICKS
                THEN /\ Cardinality(SpawnedAtShooter(G, G')) = 1
                     /\ \A b \in SpawnedAtShooter(G, G') :
                            G'.actors.actors[b].not_firing_for = 0
                     /\ G'.actors.actors[k].not_firing_for = 0
                ELSE /\ SpawnedAtShooter(G, G') = {}
                     /\ G'.actors.actors[k].not_firing_for
                            = G.actors.actors[k].not_firing_for + 1
                     /\ G'.actors.actors[k].not_firing_for
                            <= SHOOTER_FIRING_RATE_TICKS ]_vars

\* C30 witness: a shooter that joined a new Game has fired in the third
\* tick: its bullet is new and time_since_fire is 0
C30_Witness ==
    /\ gev.op = "advance"
    /\ G.time = 3
    /\ OfKind(G, "Shooter") = {0}
    /\ G.actors.actors[0].not_firing_for = 0
    /\ \E b \in OfKind(G, "Bullet") :
           /\ G.actors.actors[b].trans = ShooterTrans
           /\ G.actors.actors[b].not_firing_for = 0

\* an actor whose position is on the map
OnMap(actor) ==
    /\ actor.trans.x >= 0 /\ actor.trans.x <= MAP_W
    /\ actor.trans.y >= 0 /\ actor.trans.y <= MAP_H

\* C31: a Bullet that is as old as its lifetime, or is outside the map, is
\* not in the Game that the next advance gives; a bullet made at age 0 with a
\* lifetime of two steps outlives its first advance, if it stays on the map,
\* and is removed by its second
C31_OldOrOutsideBulletsGo ==
    [][ gev'.op = "advance" =>
            \A b \in OfKind(G, "Bullet") :
                /\ G.actors.actors[b].not_firing_for >= BULLET_LIFETIME_TICKS
                       \/ ~OnMap(G.actors.actors[b])
                   => b \notin KeysOf(G')
                /\ G.actors.actors[b].not_firing_for = BULLET_LIFETIME_TICKS - 1
                   => b \notin KeysOf(G')
                /\ G.actors.actors[b].not_firing_for = 0
                       /\ OnMap(G.actors.actors[b])
                       /\ G.actors.actors[b].trans.x + BULLET_VEL_TICK <= MAP_W
                       /\ G.actors.actors[b].trans.y + BULLET_VEL_TICK <= MAP_H
                   => b \in OfKind(G', "Bullet")
                      /\ G'.actors.actors[b].not_firing_for = 1 ]_vars

\* C31 witness: the one ship of the Game fired in the first tick; its bullet,
\* which got id 1, is gone after the third
C31_Witness ==
    /\ gev.op = "advance"
    /\ G.time = 3
    /\ KeysOf(G) = {0}
    /\ G.actors.actors[0].kind = "Ship"
    /\ G.actors.actors[0].not_firing_for = 2
    /\ G.actors.count = 2

\* C31 witness, outside the map: the bullet that a ship at the right edge
\* spawned beyond the edge is gone after the next tick
C31_WitnessOutside ==
    /\ gev.op = "advance"
    /\ G.time = 2
    /\ KeysOf(G) = {0}
    /\ G.actors.actors[0].kind = "Ship"
    /\ G.actors.actors[0].trans.x = MAP_W
    /\ G.actors.actors[0].not_firing_for = 1
    /\ G.actors.count = 2

\* C32: Game::advance removes no Ship and no Shooter: each is in the new Game
\* under its id with its variant; an id that is gone was a Bullet whose advance
\* said it is not alive; and the actors, ids and counter of the new Game are
\* those the first loop left, in one of the orders of the HashMap
C32_AdvanceKeepsShipsAndShooters ==
    [][ gev'.op = "advance" =>
            /\ \A k \in KeysOf(G) :
                   G.actors.actors[k].kind \in {"Ship", "Shooter"}
                   => /\ k \in KeysOf(G')
                      /\ G'.actors.actors[k].kind = G.actors.actors[k].kind
            /\ \A k \in KeysOf(G) \ KeysOf(G') :
                   /\ G.actors.actors[k].kind = "Bullet"
                   /\ ~alive(BulletMoved(G.actors.actors[k]))
            /\ \A k \in OfKind(G, "Bullet") :
                   alive(BulletMoved(G.actors.actors[k])) => k \in OfKind(G', "Bullet")
            /\ \E o \in Orders(KeysOf(G)) :
                   G'.actors = AdvanceAll(G.actors, o, gev'.inputs,
                                          prepare_new(G.actors)) ]_vars

\* C32 witness: after three ticks a ship and a shooter are still in the Game
\* and the bullet that the ship fired in the first tick is not
C32_Witness ==
    /\ gev.op = "advance"
    /\ G.time = 3
    /\ OfKind(G, "Ship") = {0}
    /\ OfKind(G, "Shooter") = {1}
    /\ G.actors.actors[0].not_firing_for = 2
    /\ G.actors.count >= 3
    /\ 2 \notin KeysOf(G)

\* C33: once the input thread has signalled the quit, the main loop of
\* attach_sdl comes to its end
C33_QuitEndsMainLoop == (quit_chan.msgs > 0) ~> (mpc = "done")

\* C33, the number of rounds: after the signal the main loop calls
\* on_game_update at most once more
C33_AtMostOneMoreRound == qrounds <= 1

\* C33, with the in-process handle the main loop does come to its end
C33_InProcessQuitEnds == (qkind = "inproc" /\ quit_chan.msgs > 0) ~> (mpc = "done")

\* C33, with the UDP handle the main loop comes to its end if the datagrams
\* of the server keep coming
C33_QuitEndsWhileServerSends == [](qpeer = "up") => C33_QuitEndsMainLoop

\* C33: the quit is signalled, and the main loop is in a recv_game of the UDP
\* handle that has gone round its loop MaxPolls times with nothing to receive
C33_StuckInRecvGame ==
    /\ qkind = "udp"
    /\ quit_chan.msgs > 0
    /\ mpc = "recv_game"
    /\ qpeer = "gone"
    /\ qinbox = 0
    /\ qpolls = MaxPolls

\* C34: whatever the interleaving of the heartbeat and the ClientHandles, no
\* two packets of the client carry the same local.seq, and local.seq counts
\* every bump: no increment is lost
C34_SeqsDistinct ==
    /\ \A i, j \in 1..Len(hwire) : i # j => hwire[i].seq # hwire[j].seq
    /\ \A i, j \in 1..Len(hwire) : i < j => hwire[i].seq < hwire[j].seq
    /\ hconn.local.seq = hbumps

\* C34 witness: the heartbeat, the handle and its clone have each sent a
\* packet, and a thread is in its call again
C34_Witness ==
    /\ { hwire[i].by : i \in 1..Len(hwire) } = ConnThreads
    /\ hconn.local.seq = MaxRaceSends

\* C35: no thread holds the mutex of the ring and the mutex of clients at the
\* same time, and whenever a thread has a step left some thread can take one
C35_NeverBothMutexes ==
    /\ \A t \in LockThreads : ~(lheld.games = t /\ lheld.clients = t)
    /\ (\E t \in LockThreads : lprog[t] # << >>) => \E t \in LockThreads : CanStep(t)

\* C35 witness: run is in remove_player under clients while a join holds the
\* ring
C35_Witness ==
    /\ lheld.clients = "run"
    /\ lheld.games \in {"join1", "join2"}
    /\ Head(lprog["run"]) = Work("remove_client")

\* a Conn that has been idle for more than the timeout at time t
IdleTooLong(c, t) == t - c.remote.received > CONN_TIMEOUT

\* the receive takes the datagram for one of this protocol: what is in the
\* buffer decodes as a Packet<T> and carries the magic
Accepted(T, buf) ==
    /\ DecodePacket(T, buf, MAX_PACKET_SIZE).ok
    /\ DecodePacket(T, buf, MAX_PACKET_SIZE).val.header.proto_id = PROTO_ID

C37_UnknownPeerGetsConn ==
    [][ ev'.op = "server_recv" =>
            /\ active_conn(clients', ev'.peer)
            /\ ~active_conn(clients, ev'.peer)
                   /\ ~Accepted("Input", RecvInto(server_buf, ev'.data)) =>
                   clients'[ev'.peer] = ConnNew(now) ]_vars

\* C37 witness: the server has received a datagram with a wrong magic from an
\* address it did not know, and has a fresh Conn for it
C37_Witness ==
    /\ ev.op = "server_recv"
    /\ ev.data = WrongMagic
    /\ ev.peer = ForeignAddr
    /\ active_conn(clients, ForeignAddr)
    /\ clients[ForeignAddr] = ConnNew(now)
    /\ heard[ForeignAddr] = 0

\* C37 witness, a datagram that does not decode
C37_WitnessBadBool ==
    /\ ev.op = "server_recv"
    /\ ev.data = BadBool
    /\ DOMAIN clients = {ForeignAddr}
    /\ clients[ForeignAddr] = ConnNew(now)

\* C38: on the Conn of the client and on the Conn the server has for the
\* client, remote.ack, the highest ack seen from the peer, is never more than
\* local.seq, the number of packets sent to the peer
C38_AckNeverAboveSeq ==
    \A c \in ConnsNow :
        c.peer \in {ServerAddr, ClientAddr} => c.conn.remote.ack <= c.conn.local.seq

\* C38: the server has made a fresh Conn for the client, which still
\* acknowledges a packet of the Conn that was removed
C38_FreshConnAcked ==
    /\ ev.op = "server_recv"
    /\ ev.peer = ClientAddr
    /\ active_conn(clients, ClientAddr)
    /\ clients[ClientAddr].local.seq = 0
    /\ clients[ClientAddr].remote.ack = 1
    /\ conn.local.ack = 1

\* the ids of the actors of a Game that are not ships
NotShips(game) == { k \in Keys(game) : game.actors.actors[k].kind # "Ship" }

\* C39: no Input that waits in the channel or is in the batch of a tick is
\* addressed to the id of a Shooter or of a Bullet of the front Game, whether
\* or not the player that sent it is still in the game
C39_NoInputForShooterOrBullet ==
    /\ \A i \in 1..Len(cmds) : cmds[i].player \notin NotShips(games[1])
    /\ \A i \in 1..Len(cmds_chan) : cmds_chan[i].player \notin NotShips(games[1])

\* C39 witness: Game::advance is about to be called on a Game with a Bullet
\* and a batch with an input for a player that has been removed
C39_Witness ==
    /\ spc = "advance"
    /\ NotShips(games[1]) # {}
    /\ \E i \in 1..Len(cmds) :
           /\ cmds[i].player \notin Keys(games[1])
           /\ cmds[i].player \notin DOMAIN srv_clients

\* C40: a round of the loop of send_input on the UDP handle ends the call
\* with false exactly when the send returned Closed, which it does exactly on
\* a Conn idle for too long, and then nothing is sent and local.seq stays;
\* it ends the call with true only when a datagram has gone on the wire; on
\* any other result the loop goes round again, with nothing on the wire and
\* local.seq one higher, however often that has happened already
C40_SendInputRetries ==
    [][ ev'.op = "send_input" =>
            /\ (ev'.res = "false") <=> IdleTooLong(conn, now)
            /\ ev'.res = "false" => ev'.out = 0 /\ conn' = conn
            /\ ev'.res = "true" =>
                   /\ ev'.out = 1
                   /\ wire' # wire
                   /\ conn'.local.seq = conn.local.seq + 1
            /\ ev'.res \notin {"true", "false"} =>
                   /\ ev'.res = "again"
                   /\ ev'.out = 0
                   /\ wire' = wire
                   /\ conn'.local.seq = conn.local.seq + 1 ]_vars

\* C40 witness: send_input has gone round its loop MaxPackets times on a
\* socket that fails; nothing has been sent and local.seq is MaxPackets
C40_Witness ==
    /\ ev.op = "send_input"
    /\ ev.res = "again"
    /\ conn.local.seq = MaxPackets
    /\ sent[ServerAddr] = << >>
    /\ wire = {}

====
